---- MODULE Spec2Model ----
(***************************************************************************)
(* Model of the RSS reader build (src/build.py) and of its fetch/cache     *)
(* layer (src/rss_core/fetcher.py).                                        *)
(*                                                                         *)
(* Time is counted in hours.  A URL is a record of its parts.  A payload   *)
(* (bytes) is a sequence of chunks; the empty payload is <<>>.  A Python   *)
(* dict is a function whose DOMAIN is the set of keys present.             *)
(***************************************************************************)
EXTENDS Integers, Sequences, FiniteSets, TLC

VARIABLES
    clock,          \* time.time(), in hours
    feed_cache,     \* Fetcher.feed_cache: url -> {payload_b64, etag, last_modified, timestamp}
    calls,          \* per caller: the fetch_url call in flight (its url and the entry it read)
    ret,            \* per caller: what its last fetch_url call returned or raised
    lastOk,         \* history: per url, the last 2xx response a fetch_url call received
    ncalls,         \* number of fetch_url calls started by the free-running callers
    phase,          \* where main() of build.py stands
    run,            \* "first": a run; "rerun": the run that follows it
    disk,           \* the three cache files under data/
    feeds_file,     \* the file --feeds names (feeds.json)
    files,          \* the files under images/
    image_cache,    \* main.image_cache
    fulltext_cache, \* main.fulltext_cache
    jobs,           \* per configured feed: state of its fetch_job future
    raw_items,      \* main.raw_items
    now,            \* main.now
    valid_items,    \* main.valid_items
    idx,            \* position of the processing loop in valid_items
    final_data_list,\* main.final_data_list
    netlog,         \* history: the urls requested from the network in this run
    prev,           \* history: full-text cache and output at the end of the previous run
    arg,            \* the arguments of the function applied on its own
    out             \* what that application returned or raised

fetchVars == <<clock, feed_cache, calls, ret, lastOk, ncalls>>

buildVars == <<phase, run, disk, feeds_file, files, image_cache, fulltext_cache, jobs, raw_items,
               now, valid_items, idx, final_data_list, netlog, prev>>

callVars == <<arg, out>>

vars == <<clock, feed_cache, calls, ret, lastOk, ncalls,
          phase, run, disk, feeds_file, files, image_cache, fulltext_cache, jobs,
          raw_items, now, valid_items, idx, final_data_list, netlog, prev, arg, out>>

\* no function is applied on its own
NoArg == [fn |-> "none"]
NoOut == [status |-> "none"]

(***************************************************************************)
(* Bounds                                                                  *)
(***************************************************************************)
NCallers == 2
MaxCalls == 2
NDown == 10

\* the clock value at which the model starts
StartClock == 10

Callers == 1..NCallers

(***************************************************************************)
(* Python dicts                                                            *)
(***************************************************************************)
EmptyDict == [k \in {} |-> 0]

\* dict.get(k, dflt)
Get(d, k, dflt) == IF k \in DOMAIN d THEN d[k] ELSE dflt

\* d[k] = v
Put(d, k, v) == [x \in (DOMAIN d) \cup {k} |-> IF x = k THEN v ELSE d[x]]

(***************************************************************************)
(* Cache files: utils.load_json, utils.save_json                           *)
(***************************************************************************)
NoFile == [kind |-> "nofile"]

JsonFile(data) == [kind |-> "json", data |-> data]

\* a file that was truncated and holds the beginning of a document
PartialFile == [kind |-> "partial"]

\* load_json: {} when the file is missing or does not parse
JsonLoad(file) == IF file.kind = "json" THEN file.data ELSE EmptyDict

\* the value clean_html returns when it is called without await
Coroutine == "<coroutine object BaseParser.clean_html>"

\* json.dump raises TypeError on a value that holds a coroutine
Serializable(data) ==
    \A k \in DOMAIN data : Get(data[k], "content", "") # Coroutine

\* save_json: opens the file itself for writing, dumps into it, swallows errors
JsonSave(data) == IF Serializable(data) THEN JsonFile(data) ELSE PartialFile

(***************************************************************************)
(* URLs                                                                    *)
(***************************************************************************)
Url(scheme, host, path, query, frag) ==
    [scheme |-> scheme, host |-> host, path |-> path, query |-> query, frag |-> frag]

\* the empty string
EmptyUrl == Url("", "", "", "", "")

\* two feed endpoints
S1 == Url("https", "s1", "feed", "", "")
S2 == Url("https", "s2", "feed", "", "")

\* urllib.request.Request(url) raises ValueError("unknown url type") for a
\* url without a scheme: "", "/a", "//host/a"
RequestRaises(url) == url.scheme = ""

(***************************************************************************)
(* base64                                                                  *)
(***************************************************************************)
B64Encode(payload) == [i \in 1..Len(payload) |-> <<"b64", payload[i]>>]

B64Decode(text) == [i \in 1..Len(text) |-> text[i][2]]

(***************************************************************************)
(* Feed documents: what a feed endpoint can serve.  A document is the      *)
(* sequence of its entries; an entry carries the text of its <link> and    *)
(* the publish time its <pubDate> denotes (NoDate when it has none).       *)
(***************************************************************************)
NoDate == -1

RawLink(url, tail) == [url |-> url, tail |-> tail]

FeedEntry(link, pub, image) ==
    [kind |-> "item", link |-> link, pub |-> pub, image |-> image,
     desc_image |-> EmptyUrl]

\* an entry that has its image in an <img> of its description
DescImageEntry(link, pub, image) ==
    [kind |-> "item", link |-> link, pub |-> pub, image |-> EmptyUrl,
     desc_image |-> image]

\* text that is not well-formed XML, outside the entries: an unescaped "&"
Stray == [kind |-> "stray"]

\* text without any element
NoMarkup == [kind |-> "text"]

\* a document that begins with <!DOCTYPE html> or <html: a listing page and
\* its <a> elements, each with its href and the text inside it
Anchor(href, title) == [href |-> href, title |-> title]

HtmlPage(anchors) == [kind |-> "html", anchors |-> anchors]

\* article links; the first two differ in their fragment only
LinkA     == Url("https", "tech", "a", "", "")
LinkAFrag == Url("https", "tech", "a", "", "x")
LinkB     == Url("https", "news", "b", "", "")

\* image urls: the enclosure of an entry, the og:image of an article page
ImgA == Url("https", "img", "a.jpg", "", "")
ImgP == Url("https", "img", "p.jpg", "w=1", "")

DocOne == << FeedEntry(RawLink(LinkA, ""), 4, ImgA) >>
DocTwo == << FeedEntry(RawLink(LinkAFrag, ""), 12, EmptyUrl),
             FeedEntry(RawLink(LinkB, " junk"), 2, EmptyUrl) >>

\* a third endpoint and what it serves: an article with an enclosure, and an
\* entry whose <link> is relative
S3      == Url("https", "s3", "rss", "", "")
LinkC   == Url("https", "news", "c", "", "")
RelLink == Url("", "", "r", "", "")
ImgC    == Url("https", "img", "c.jpg", "", "")

DocC     == << FeedEntry(RawLink(LinkC, ""), 9, ImgC) >>
DocThree == DocC \o << FeedEntry(RawLink(RelLink, ""), 8, EmptyUrl) >>

\* an endpoint that is down
Down(j) == Url("https", "down", "rss", ToString(j), "")

\* an article page: the markup its content locator finds, its og:image, the
\* images inside the located subtree
PageDoc == << [html |-> "<article>text</article>", og |-> ImgP, imgs |-> <<>>] >>

\* image bytes PIL can open
JpegData == << "jpeg" >>

(***************************************************************************)
(* The network: the answers a server can give to one request               *)
(***************************************************************************)
OkResp(payload, etag, last_modified) ==
    [kind |-> "ok", payload |-> payload, etag |-> etag, last_modified |-> last_modified]

HttpErr(code) == [kind |-> "http", code |-> code]

NetErr == [kind |-> "neterr"]

\* no request is made
NoResp == [kind |-> "none"]

\* (ETag, Last-Modified) headers of a 2xx answer; "" is a missing header
TokenPairs == {<<"", "">>, <<"e1", "">>, <<"", "m1">>}

\* the documents each endpoint can serve
Contents(url) ==
    CASE url = S1         -> {<<>>, DocOne}
      [] url = S2         -> {DocTwo}
      [] url = S3         -> {DocC, DocThree}
      [] url.host = "down" -> {}
      [] url.host = "img" -> {JpegData}
      [] OTHER            -> {PageDoc}

\* feed endpoints send validators, article pages and images do not
Tokens(url) == IF url.path = "feed" THEN TokenPairs ELSE {<<"", "">>}

Responses(url) ==
    {OkResp(p, t[1], t[2]) : p \in Contents(url), t \in Tokens(url)}
        \cup {HttpErr(304), HttpErr(500), NetErr}

(***************************************************************************)
(* Fetcher.fetch_url                                                       *)
(***************************************************************************)
\* entry.get("payload_b64") is truthy
HasPayload(entry) == Get(entry, "payload_b64", <<>>) # <<>>

Result(payload, meta) == [payload |-> payload, meta |-> meta]

EmptyResult == Result(<<>>, EmptyDict)

Meta(resp, t) ==
    [etag |-> resp.etag, last_modified |-> resp.last_modified, timestamp |-> t]

CachedEntry(payload, meta) ==
    [payload_b64 |-> B64Encode(payload), etag |-> meta.etag,
     last_modified |-> meta.last_modified, timestamp |-> meta.timestamp]

\* variant: a 304 is treated as an answer without content
OnHTTPError_NotModifiedEmpty(code, entry) ==
    IF code # 304 /\ HasPayload(entry)
    THEN Result(B64Decode(entry.payload_b64), entry)
    ELSE EmptyResult

\* except urllib.error.HTTPError as exc
OnHTTPError(code, entry) ==
    IF code = 304 /\ HasPayload(entry)
    THEN Result(B64Decode(entry.payload_b64), entry)
    ELSE IF HasPayload(entry)
         THEN Result(B64Decode(entry.payload_b64), entry)
         ELSE EmptyResult

\* variant: no fallback to the cached payload
OnException_NoFallback(entry) == EmptyResult

\* except Exception
OnException(entry) ==
    IF HasPayload(entry)
    THEN Result(B64Decode(entry.payload_b64), entry)
    ELSE EmptyResult

\* what the call returns, given the entry it read and the server's answer
FetchResult(entry, resp, t) ==
    CASE resp.kind = "ok"     -> Result(resp.payload, Meta(resp, t))
      [] resp.kind = "http"   -> OnHTTPError(resp.code, entry)
      [] resp.kind = "neterr" -> OnException(entry)

\* variant: an entry already present is kept (setdefault instead of assignment)
CacheAfter_KeepFirst(cache, url, resp, t) ==
    IF resp.kind = "ok" /\ url \notin DOMAIN cache
    THEN Put(cache, url, CachedEntry(resp.payload, Meta(resp, t)))
    ELSE cache

\* the feed cache after the call
CacheAfter(cache, url, resp, t) ==
    IF resp.kind = "ok"
    THEN Put(cache, url, CachedEntry(resp.payload, Meta(resp, t)))
    ELSE cache

IdleCall == [pc |-> "idle"]

NoReturn == [status |-> "none"]

\* what a returning call hands to its caller
Returned(url, entry, resp, t) ==
    [status |-> "returned", url |-> url, resp |-> resp, entry |-> entry,
     payload |-> FetchResult(entry, resp, t).payload,
     meta |-> FetchResult(entry, resp, t).meta]

Raised(url) == [status |-> "raised", url |-> url]

\* the history of 2xx answers after the call
LastOkAfter(hist, url, resp) == IF resp.kind = "ok" THEN Put(hist, url, resp) ELSE hist

\* variant: only the ETag is sent back
ConditionalHeaders_ETagOnly(entry) ==
    [if_none_match |-> Get(entry, "etag", ""), if_modified_since |-> ""]

\* lines 53-57: If-None-Match and If-Modified-Since; "" is a header not sent
ConditionalHeaders(entry) ==
    [if_none_match     |-> Get(entry, "etag", ""),
     if_modified_since |-> Get(entry, "last_modified", "")]

\* lines 38-59: read the entry, build the request
FetchBegin(c, url) ==
    /\ calls[c].pc = "idle"
    /\ ~RequestRaises(url)
    /\ calls' = [calls EXCEPT ![c] =
            [pc |-> "open", url |-> url, entry |-> Get(feed_cache, url, EmptyDict),
             headers |-> ConditionalHeaders(Get(feed_cache, url, EmptyDict))]]
    /\ UNCHANGED <<feed_cache, lastOk>>

\* lines 61-98: the server answers, the call returns
FetchEnd(c, resp) ==
    /\ calls[c].pc = "open"
    /\ feed_cache' = CacheAfter(feed_cache, calls[c].url, resp, clock)
    /\ lastOk' = LastOkAfter(lastOk, calls[c].url, resp)
    /\ calls' = [calls EXCEPT ![c] = IdleCall]

(***************************************************************************)
(* The fetcher driven by free-running callers                              *)
(***************************************************************************)
FetchUrls == {S1, S2, EmptyUrl}

\* a caller calls fetch_url; time may have passed since the last call began
Call(c) ==
    /\ phase = "off"
    /\ ncalls < MaxCalls
    /\ ncalls' = ncalls + 1
    /\ \E dt \in {0, 1} : clock' = clock + dt
    /\ \E url \in FetchUrls :
           IF RequestRaises(url)
           THEN /\ calls[c].pc = "idle"
                /\ ret' = [ret EXCEPT ![c] = Raised(url)]
                /\ UNCHANGED <<feed_cache, lastOk, calls>>
           ELSE /\ FetchBegin(c, url)
                /\ ret' = [ret EXCEPT ![c] = NoReturn]
    /\ UNCHANGED buildVars
    /\ UNCHANGED callVars

Respond(c) ==
    /\ phase = "off"
    /\ calls[c].pc = "open"
    /\ \E resp \in Responses(calls[c].url) :
           /\ FetchEnd(c, resp)
           /\ ret' = [ret EXCEPT ![c] =
                  Returned(calls[c].url, calls[c].entry, resp, clock)]
    /\ UNCHANGED <<clock, ncalls>>
    /\ UNCHANGED buildVars
    /\ UNCHANGED callVars

\* the feed caches load_json(FEED_CACHE_PATH) can hand to the Fetcher: none
\* yet, or what an earlier run stored
LoadedFeedCaches ==
    { EmptyDict,
      [u \in {S2} |-> CachedEntry(DocTwo, Meta(OkResp(DocTwo, "e1", ""), StartClock - 1))] }

InitFetch ==
    /\ clock = StartClock
    /\ feed_cache \in LoadedFeedCaches
    /\ calls = [c \in Callers |-> IdleCall]
    /\ ret = [c \in Callers |-> NoReturn]
    /\ lastOk = EmptyDict
    /\ ncalls = 0
    /\ phase = "off"
    /\ run = "first"
    /\ disk = [feed |-> NoFile, image |-> NoFile, fulltext |-> NoFile]
    /\ feeds_file = NoFile
    /\ files = {}
    /\ image_cache = EmptyDict
    /\ fulltext_cache = EmptyDict
    /\ jobs = <<>>
    /\ raw_items = <<>>
    /\ now = 0
    /\ valid_items = <<>>
    /\ idx = 0
    /\ final_data_list = <<>>
    /\ netlog = {}
    /\ prev = EmptyDict
    /\ arg = NoArg
    /\ out = NoOut

NextFetch ==
    \/ \E c \in Callers : Call(c)
    \/ \E c \in Callers : Respond(c)

SpecFetch == InitFetch /\ [][NextFetch]_vars

(***************************************************************************)
(* Fetcher.download_image                                                  *)
(***************************************************************************)
\* IMAGE_CACHE_TTL = 24 * 60 * 60 seconds
IMAGE_CACHE_TTL == 24

\* normalized_key = url.split("#")[0].split("?")[0]
NormalizedKey(url) == [url EXCEPT !.query = "", !.frag = ""]

\* the empty string download_image returns for "nothing stored"
NoName == [sha1 |-> EmptyUrl, ext |-> ""]

\* sha1(normalized_key)[:16] + ext; the extension follows the magic bytes
FileName(key, data) == [sha1 |-> key, ext |-> ".jpg"]

\* lines 124-131: the entry names a file, is young enough, and the file exists
CachedPathValid(entry, t, fls) ==
    /\ Get(entry, "path", NoName) # NoName
    /\ t - Get(entry, "timestamp", 0) <= IMAGE_CACHE_TTL
    /\ entry.path \in fls

ImageEntry(name, t, url) == [path |-> name, timestamp |-> t, url |-> url]

\* variant: the writer updates the fields of the entry it read
ImageCacheAfter_Update(cache, key, name, t, url, old) ==
    Put(cache, key, [path |-> name, timestamp |-> t, url |-> Get(old, "url", url)])

\* lines 177-182: self.image_cache[normalized_key] = {...} under img_lock
ImageCacheAfter(cache, key, name, t, url, old) ==
    Put(cache, key, ImageEntry(name, t, url))

ReturnedName(url, name, entry, stored) ==
    [status |-> "returned_name", url |-> url, name |-> name, entry |-> entry,
     stored |-> stored]

\* lines 114-131 and 157-159: read the entry under img_lock; return at once on
\* an empty url, a reusable entry or a url Request rejects, else open the request
DownloadBegin(c, url) ==
    /\ calls[c].pc = "idle"
    /\ LET key   == NormalizedKey(url)
           entry == Get(image_cache, key, EmptyDict)
       IN IF url = EmptyUrl
          THEN /\ ret' = [ret EXCEPT ![c] = ReturnedName(url, NoName, EmptyDict, FALSE)]
               /\ UNCHANGED calls
          ELSE IF CachedPathValid(entry, clock, files)
          THEN /\ ret' = [ret EXCEPT ![c] = ReturnedName(url, entry.path, entry, FALSE)]
               /\ UNCHANGED calls
          ELSE IF RequestRaises(url)
          THEN /\ ret' = [ret EXCEPT ![c] = ReturnedName(url, NoName, entry, FALSE)]
               /\ UNCHANGED calls
          ELSE /\ ret' = [ret EXCEPT ![c] = NoReturn]
               /\ calls' = [calls EXCEPT ![c] =
                      [pc |-> "img_open", url |-> url, key |-> key, now |-> clock,
                       entry |-> entry]]
    /\ UNCHANGED <<image_cache, files>>

\* lines 159-175: the server answers; the data is written to its file
DownloadStore(c, resp) ==
    /\ calls[c].pc = "img_open"
    /\ IF resp.kind # "ok" \/ resp.payload = <<>>
       THEN /\ ret' = [ret EXCEPT ![c] =
                   ReturnedName(calls[c].url, NoName, calls[c].entry, FALSE)]
            /\ calls' = [calls EXCEPT ![c] = IdleCall]
            /\ UNCHANGED files
       ELSE /\ files' = files \cup {FileName(calls[c].key, resp.payload)}
            /\ calls' = [calls EXCEPT ![c] =
                   [pc |-> "img_stored", url |-> calls[c].url, key |-> calls[c].key,
                    now |-> calls[c].now, entry |-> calls[c].entry,
                    name |-> FileName(calls[c].key, resp.payload)]]
            /\ UNCHANGED ret
    /\ UNCHANGED image_cache

\* lines 177-185: the entry is replaced under img_lock, the name returned
DownloadCommit(c) ==
    /\ calls[c].pc = "img_stored"
    /\ image_cache' = ImageCacheAfter(image_cache, calls[c].key, calls[c].name,
                                      calls[c].now, calls[c].url,
                                      Get(image_cache, calls[c].key, EmptyDict))
    /\ ret' = [ret EXCEPT ![c] =
           ReturnedName(calls[c].url, calls[c].name, calls[c].entry, TRUE)]
    /\ calls' = [calls EXCEPT ![c] = IdleCall]
    /\ UNCHANGED files

(***************************************************************************)
(* One Fetcher shared by worker threads that call fetch_url and            *)
(* download_image                                                          *)
(***************************************************************************)
\* the same image under two urls that differ in their query only
ImgCq == Url("https", "img", "c.jpg", "v=2", "")

WorkerFeedUrls == {S3}

WorkerImageUrls == {ImgC, ImgCq}

WorkerFetch(c) ==
    /\ phase = "workers"
    /\ ncalls < MaxCalls
    /\ ncalls' = ncalls + 1
    /\ \E url \in WorkerFeedUrls : FetchBegin(c, url)
    /\ ret' = [ret EXCEPT ![c] = NoReturn]
    /\ UNCHANGED clock
    /\ UNCHANGED buildVars
    /\ UNCHANGED callVars

WorkerFetchReturn(c) ==
    /\ phase = "workers"
    /\ calls[c].pc = "open"
    /\ \E resp \in Responses(calls[c].url) :
           /\ FetchEnd(c, resp)
           /\ ret' = [ret EXCEPT ![c] =
                  Returned(calls[c].url, calls[c].entry, resp, clock)]
    /\ UNCHANGED <<clock, ncalls>>
    /\ UNCHANGED buildVars
    /\ UNCHANGED callVars

WorkerDownload(c) ==
    /\ phase = "workers"
    /\ ncalls < MaxCalls
    /\ ncalls' = ncalls + 1
    /\ \E url \in WorkerImageUrls : DownloadBegin(c, url)
    /\ UNCHANGED <<clock, feed_cache, lastOk, phase, run, disk, feeds_file,
                   fulltext_cache, jobs, raw_items, now, valid_items, idx,
                   final_data_list, netlog, prev>>
    /\ UNCHANGED callVars

WorkerStore(c) ==
    /\ phase = "workers"
    /\ calls[c].pc = "img_open"
    /\ \E resp \in Responses(calls[c].url) : DownloadStore(c, resp)
    /\ UNCHANGED <<clock, feed_cache, lastOk, ncalls, phase, run, disk, feeds_file,
                   fulltext_cache, jobs, raw_items, now, valid_items, idx,
                   final_data_list, netlog, prev>>
    /\ UNCHANGED callVars

WorkerCommit(c) ==
    /\ phase = "workers"
    /\ DownloadCommit(c)
    /\ UNCHANGED <<clock, feed_cache, lastOk, ncalls, phase, run, disk, feeds_file,
                   fulltext_cache, jobs, raw_items, now, valid_items, idx,
                   final_data_list, netlog, prev>>
    /\ UNCHANGED callVars

\* the image caches a Fetcher can be built on: none yet; an entry at the
\* time-to-live; an entry past it; an entry whose file is gone
NamedImages ==
    LET name == FileName(ImgC, JpegData)
    IN { [cache |-> EmptyDict, files |-> {}],
         [cache |-> [k \in {ImgC} |-> ImageEntry(name, StartClock - IMAGE_CACHE_TTL, ImgC)],
          files |-> {name}],
         [cache |-> [k \in {ImgC} |-> ImageEntry(name, StartClock - IMAGE_CACHE_TTL - 1, ImgC)],
          files |-> {name}],
         [cache |-> [k \in {ImgC} |-> ImageEntry(name, StartClock - IMAGE_CACHE_TTL, ImgC)],
          files |-> {}] }

InitWorkers ==
    /\ clock = StartClock
    /\ feed_cache = EmptyDict
    /\ calls = [c \in Callers |-> IdleCall]
    /\ ret = [c \in Callers |-> NoReturn]
    /\ lastOk = EmptyDict
    /\ ncalls = 0
    /\ phase = "workers"
    /\ run = "first"
    /\ disk = [feed |-> NoFile, image |-> NoFile, fulltext |-> NoFile]
    /\ feeds_file = NoFile
    /\ \E st \in NamedImages : image_cache = st.cache /\ files = st.files
    /\ fulltext_cache = EmptyDict
    /\ jobs = <<>>
    /\ raw_items = <<>>
    /\ now = 0
    /\ valid_items = <<>>
    /\ idx = 0
    /\ final_data_list = <<>>
    /\ netlog = {}
    /\ prev = EmptyDict
    /\ arg = NoArg
    /\ out = NoOut

NextWorkers ==
    \/ \E c \in Callers : WorkerFetch(c)
    \/ \E c \in Callers : WorkerFetchReturn(c)
    \/ \E c \in Callers : WorkerDownload(c)
    \/ \E c \in Callers : WorkerStore(c)
    \/ \E c \in Callers : WorkerCommit(c)

SpecWorkers == InitWorkers /\ [][NextWorkers]_vars

(***************************************************************************)
(* AsyncFetcher.download_image: tasks of one event loop on one AsyncFetcher *)
(***************************************************************************)
\* what an image server can answer: as for any url, or a 2xx with no body
ImageAnswers(url) == Responses(url) \cup {OkResp(<<>>, "", "")}

AsyncReturned(url, name, entry, resp, wrote) ==
    [status |-> "async_name", url |-> url, name |-> name, entry |-> entry,
     answer |-> resp, wrote |-> wrote]

\* lines 260-282: read the entry; return at once on an empty url or a reusable
\* entry, else await client.get
AsyncDownloadBegin(c, url) ==
    /\ calls[c].pc = "idle"
    /\ LET key   == NormalizedKey(url)
           entry == Get(image_cache, key, EmptyDict)
       IN IF url = EmptyUrl
          THEN /\ ret' = [ret EXCEPT ![c] =
                      AsyncReturned(url, NoName, EmptyDict, NoResp, FALSE)]
               /\ UNCHANGED calls
          ELSE IF CachedPathValid(entry, clock, files)
          THEN /\ ret' = [ret EXCEPT ![c] =
                      AsyncReturned(url, entry.path, entry, NoResp, FALSE)]
               /\ UNCHANGED calls
          ELSE /\ ret' = [ret EXCEPT ![c] = NoReturn]
               /\ calls' = [calls EXCEPT ![c] =
                      [pc |-> "await_get", url |-> url, key |-> key, now |-> clock,
                       entry |-> entry]]
    /\ UNCHANGED <<image_cache, files>>

\* lines 282-301, one uninterrupted stretch of the task: raise_for_status, the
\* file is written (wrote = FALSE: open or write raises), the entry is set, the
\* name returned; any exception returns ""
AsyncDownloadEnd(c, resp, wrote) ==
    /\ calls[c].pc = "await_get"
    /\ LET name == FileName(calls[c].key, resp.payload)
       IN IF resp.kind # "ok" \/ ~wrote
          THEN /\ ret' = [ret EXCEPT ![c] =
                      AsyncReturned(calls[c].url, NoName, calls[c].entry, resp, wrote)]
               /\ UNCHANGED <<image_cache, files>>
          ELSE /\ files' = files \cup {name}
               /\ image_cache' = Put(image_cache, calls[c].key,
                                     ImageEntry(name, calls[c].now, calls[c].url))
               /\ ret' = [ret EXCEPT ![c] =
                      AsyncReturned(calls[c].url, name, calls[c].entry, resp, wrote)]
    /\ calls' = [calls EXCEPT ![c] = IdleCall]

AsyncDownload(c) ==
    /\ phase = "tasks"
    /\ ncalls < MaxCalls
    /\ ncalls' = ncalls + 1
    /\ \E url \in WorkerImageUrls : AsyncDownloadBegin(c, url)
    /\ UNCHANGED <<clock, feed_cache, lastOk, phase, run, disk, feeds_file,
                   fulltext_cache, jobs, raw_items, now, valid_items, idx,
                   final_data_list, netlog, prev>>
    /\ UNCHANGED callVars

AsyncStore(c) ==
    /\ phase = "tasks"
    /\ calls[c].pc = "await_get"
    /\ \E resp \in ImageAnswers(calls[c].url), wrote \in BOOLEAN :
           AsyncDownloadEnd(c, resp, wrote)
    /\ UNCHANGED <<clock, feed_cache, lastOk, ncalls, phase, run, disk, feeds_file,
                   fulltext_cache, jobs, raw_items, now, valid_items, idx,
                   final_data_list, netlog, prev>>
    /\ UNCHANGED callVars

InitAsync ==
    /\ clock = StartClock
    /\ feed_cache = EmptyDict
    /\ calls = [c \in Callers |-> IdleCall]
    /\ ret = [c \in Callers |-> NoReturn]
    /\ lastOk = EmptyDict
    /\ ncalls = 0
    /\ phase = "tasks"
    /\ run = "first"
    /\ disk = [feed |-> NoFile, image |-> NoFile, fulltext |-> NoFile]
    /\ feeds_file = NoFile
    /\ \E st \in NamedImages : image_cache = st.cache /\ files = st.files
    /\ fulltext_cache = EmptyDict
    /\ jobs = <<>>
    /\ raw_items = <<>>
    /\ now = 0
    /\ valid_items = <<>>
    /\ idx = 0
    /\ final_data_list = <<>>
    /\ netlog = {}
    /\ prev = EmptyDict
    /\ arg = NoArg
    /\ out = NoOut

NextAsync ==
    \/ \E c \in Callers : AsyncDownload(c)
    \/ \E c \in Callers : AsyncStore(c)

SpecAsync == InitAsync /\ [][NextAsync]_vars

(***************************************************************************)
(* feed_parser.parse_items and the helpers it uses                         *)
(***************************************************************************)
\* utils.normalize_link: the text up to the first blank or quote
NormalizeLink(raw) == raw.url

\* urlsplit raises ValueError("Invalid IPv6 URL") on a netloc with an
\* unmatched bracket
BadHost == "[bad"

UrlSplitRaises(url) == url.host = BadHost

\* normalize_image_url reaches urljoin(base_url, raw_url), and urljoin raises
UrlJoinRaises(base_url, raw_url) ==
    /\ raw_url # EmptyUrl
    /\ ~(raw_url.scheme = "" /\ raw_url.host # "")
    /\ raw_url.scheme \notin {"http", "https"}
    /\ base_url # EmptyUrl
    /\ UrlSplitRaises(base_url) \/ UrlSplitRaises(raw_url)

\* normalize_image_url: "" stays, "//host/p" gets https:, an http(s) url
\* stays, anything else is joined to base_url
NormalizeImageUrl(base_url, raw_url) ==
    IF raw_url = EmptyUrl THEN EmptyUrl
    ELSE IF raw_url.scheme = "" /\ raw_url.host # ""
         THEN [raw_url EXCEPT !.scheme = "https"]
    ELSE IF raw_url.scheme \in {"http", "https"} THEN raw_url
    ELSE IF base_url = EmptyUrl \/ raw_url.scheme # "" THEN raw_url
    ELSE [raw_url EXCEPT !.scheme = base_url.scheme, !.host = base_url.host]

Item(link, pub_dt, source, rss_image) ==
    [link |-> link, pub_dt |-> pub_dt, source |-> source, category |-> "",
     rss_image |-> rss_image, content_html |-> ""]

\* get_rss_image: the enclosure, else the <img> of the description
RssImageRef(entry) ==
    IF entry.image # EmptyUrl THEN entry.image ELSE entry.desc_image

\* lines 175-194, one <item>: the link is whatever normalize_link leaves, the
\* image is joined to the link
EntryRaises(entry) ==
    UrlJoinRaises(NormalizeLink(entry.link), RssImageRef(entry))

EntryItem(entry, source) ==
    Item(NormalizeLink(entry.link), entry.pub, source,
         NormalizeImageUrl(NormalizeLink(entry.link), RssImageRef(entry)))

\* lines 236-261, one recovered <item>: get_rss_image_from_desc looks for
\* the image in the description only
RecoveredRaises(entry) ==
    UrlJoinRaises(NormalizeLink(entry.link), entry.desc_image)

RecoveredItem(entry, source) ==
    Item(NormalizeLink(entry.link), entry.pub, source,
         NormalizeImageUrl(NormalizeLink(entry.link), entry.desc_image))

Entries(payload) == SelectSeq(payload, LAMBDA chunk : chunk.kind = "item")

\* line 169: "<!DOCTYPE html" in text[:500] or "<html" in text[:500]
HtmlSignature(payload) == payload # <<>> /\ payload[1].kind = "html"

\* line 174: ET.fromstring accepts the text
StrictParses(payload) ==
    /\ payload # <<>>
    /\ \A i \in DOMAIN payload : payload[i].kind = "item"

\* lines 198-262: the recovering parser finds a root element and no
\* exception leaves the loop over its entries
RecoverParses(payload) ==
    /\ payload # <<>>
    /\ payload[1].kind # "text"
    /\ \A i \in DOMAIN payload :
           payload[i].kind = "item" => ~RecoveredRaises(payload[i])

\* the anchors scrape_html_feed turns into items: lines 98-104 for hk01
\* (href contains /article/, not seen, text of 5 characters or more), lines
\* 130-142 for on.cc (href of the news shape, not seen, title likewise)
ArticleShape(href, source) ==
    \/ source.host = "hk01" /\ href.path = "article"
    \/ source.host = "on.cc" /\ href.path = "bkn/cnt"

Scrapable(anchors, source, i) ==
    /\ ArticleShape(anchors[i].href, source)
    /\ Len(anchors[i].title) >= 5
    /\ \A j \in 1..(i - 1) :
           (ArticleShape(anchors[j].href, source)
               /\ (source.host = "on.cc" \/ Len(anchors[j].title) >= 5))
               => anchors[j].href # anchors[i].href

\* scrape_html_feed: Item(title, link, pub_dt, pub_text, source, rss_image)
\* lacks the required fields category and summary, so the first anchor that
\* qualifies raises TypeError; line 154 catches it and items, still empty,
\* is returned
ScrapeHtmlFeed(page, source) ==
    IF \E i \in DOMAIN page.anchors : Scrapable(page.anchors, source, i)
    THEN [items |-> <<>>, error |-> "TypeError"]
    ELSE [items |-> <<>>, error |-> "none"]

ParseReturn(items, strict, recover, scrape) ==
    [status |-> "returned", items |-> items, strict |-> strict, recover |-> recover,
     scrape |-> scrape]

ParseRaise(error) ==
    [status |-> "raised", error |-> error, items |-> <<>>, strict |-> "ok",
     recover |-> "skipped", scrape |-> "skipped"]

\* variant: a document the strict parser rejects gives no items
ParseItemsCall_StrictOnly(payload, source) ==
    IF HtmlSignature(payload)
    THEN ParseReturn(ScrapeHtmlFeed(payload[1], source).items, "skipped", "skipped",
                     ScrapeHtmlFeed(payload[1], source).error)
    ELSE IF StrictParses(payload)
    THEN IF \E i \in DOMAIN payload : EntryRaises(payload[i])
         THEN ParseRaise("ValueError")
         ELSE ParseReturn([i \in DOMAIN payload |-> EntryItem(payload[i], source)],
                          "ok", "skipped", "skipped")
    ELSE ParseReturn(<<>>, "failed", "skipped", "skipped")

\* parse_items: what it returns or raises, and which of its parsers ran
ParseItemsCall(payload, source) ==
    IF HtmlSignature(payload)
    THEN ParseReturn(ScrapeHtmlFeed(payload[1], source).items, "skipped", "skipped",
                     ScrapeHtmlFeed(payload[1], source).error)
    ELSE IF StrictParses(payload)
    THEN IF \E i \in DOMAIN payload : EntryRaises(payload[i])
         THEN ParseRaise("ValueError")
         ELSE ParseReturn([i \in DOMAIN payload |-> EntryItem(payload[i], source)],
                          "ok", "skipped", "skipped")
    ELSE IF RecoverParses(payload)
    THEN ParseReturn([i \in DOMAIN Entries(payload) |->
                         RecoveredItem(Entries(payload)[i], source)],
                     "failed", "ok", "skipped")
    ELSE ParseReturn(<<>>, "failed", "failed", "skipped")

\* the items fetch_job hands to main; an exception of parse_items is caught
\* at build.py:78 and the feed contributes nothing
ParseItems(payload, source) == ParseItemsCall(payload, source).items

(***************************************************************************)
(* build.main: configuration and constants                                 *)
(***************************************************************************)
\* feeds.json
FeedList == <<S1, S2>>

DEFAULT_LOOKBACK_HOURS == 6

DEFAULT_MAX_ITEMS == 200

\* ThreadPoolExecutor(max_workers=10)
MAX_WORKERS == 10

Min(a, b) == IF a < b THEN a ELSE b

\* lines 95-106: the loop does not skip items[i] for its date
InWindow(items, cutoff, i) ==
    /\ items[i].pub_dt # NoDate
    /\ items[i].pub_dt >= cutoff

\* lines 95-112: the loop appends items[i]: no item before it that passed the
\* date tests has its link (seen_links)
Kept(items, cutoff, i) ==
    /\ InWindow(items, cutoff, i)
    /\ \A j \in 1..(i - 1) :
           InWindow(items, cutoff, j) => items[j].link # items[i].link

\* lines 95-112: valid_items after the loop, in the order of raw_items
FilterItems(items, cutoff) ==
    LET kept == SelectSeq([i \in 1..Len(items) |-> i],
                          LAMBDA i : Kept(items, cutoff, i))
    IN [k \in 1..Len(kept) |-> items[kept[k]]]

Max(S) == CHOOSE m \in S : \A x \in S : x <= m

\* the items whose pub_dt is in dates, newest date first, the items of one
\* date in the order they have in items
RECURSIVE NewestFirst(_, _)
NewestFirst(items, dates) ==
    IF dates = {} THEN <<>>
    ELSE SelectSeq(items, LAMBDA item : item.pub_dt = Max(dates))
             \o NewestFirst(items, dates \ {Max(dates)})

\* list.sort(key=pub_dt, reverse=True): stable, so an item stands behind the
\* items that are newer and behind the equally new ones that stood before it
SortDesc(items) == NewestFirst(items, {items[i].pub_dt : i \in DOMAIN items})

\* variant: the filtered items are kept in the order the feeds completed
ValidItems_Unsorted(items, t) ==
    LET kept == FilterItems(items, t - DEFAULT_LOOKBACK_HOURS)
    IN SubSeq(kept, 1, Min(Len(kept), DEFAULT_MAX_ITEMS))

\* variant: the cap is applied to the filtered items before they are sorted
ValidItems_CapFirst(items, t) ==
    LET kept == FilterItems(items, t - DEFAULT_LOOKBACK_HOURS)
    IN SortDesc(SubSeq(kept, 1, Min(Len(kept), DEFAULT_MAX_ITEMS)))

\* lines 86-117
ValidItems(items, t) ==
    LET sorted == SortDesc(FilterItems(items, t - DEFAULT_LOOKBACK_HOURS))
    IN SubSeq(sorted, 1, Min(Len(sorted), DEFAULT_MAX_ITEMS))

\* map_cat
MapCat(url) == IF url.host = "tech" THEN "tech" ELSE "news"

(***************************************************************************)
(* build.main: start of a run, feed fetching, filtering                    *)
(***************************************************************************)
\* lines 47-52: urls stays [] when the file does not exist
Urls == IF feeds_file.kind = "json" THEN feeds_file.data ELSE <<>>

\* lines 31-52: load the caches, build the Fetcher, read the feed list; a feed
\* list that is not a JSON document makes json.load raise out of main
Load ==
    /\ phase = "boot"
    /\ feed_cache' = JsonLoad(disk.feed)
    /\ image_cache' = JsonLoad(disk.image)
    /\ fulltext_cache' = JsonLoad(disk.fulltext)
    /\ raw_items' = <<>>
    /\ IF feeds_file.kind = "partial"
       THEN /\ phase' = "crashed"
            /\ UNCHANGED <<jobs, calls>>
       ELSE /\ phase' = "fetch"
            /\ jobs' = [j \in 1..Len(Urls) |-> "queued"]
            /\ calls' = [j \in 1..Len(Urls) |-> IdleCall]
    /\ UNCHANGED <<clock, ret, lastOk, ncalls, run, disk, feeds_file, files, now,
                   valid_items, idx, final_data_list, netlog, prev>>
    /\ UNCHANGED callVars

Running == {j \in DOMAIN jobs : jobs[j] = "running"}

\* variant: the executor starts a thread for every submitted job
WorkerFree_Unbounded == TRUE

\* the executor has a thread that is not running a job
WorkerFree == Cardinality(Running) < MAX_WORKERS

\* fetch_job(u) starts on a pool thread, the jobs leaving the executor's queue
\* in the order they were submitted; a url that Request rejects makes the
\* future raise, which the as_completed loop prints and drops
FetchJobStart(j) ==
    /\ phase = "fetch"
    /\ jobs[j] = "queued"
    /\ \A k \in 1..(j - 1) : jobs[k] # "queued"
    /\ WorkerFree
    /\ IF RequestRaises(Urls[j])
       THEN /\ jobs' = [jobs EXCEPT ![j] = "done"]
            /\ UNCHANGED <<feed_cache, lastOk, calls, netlog>>
       ELSE /\ FetchBegin(j, Urls[j])
            /\ jobs' = [jobs EXCEPT ![j] = "running"]
            /\ netlog' = netlog \cup {Urls[j]}
    /\ UNCHANGED <<clock, ret, ncalls, phase, run, disk, feeds_file, files, image_cache,
                   fulltext_cache, raw_items, now, valid_items, idx,
                   final_data_list, prev>>
    /\ UNCHANGED callVars

\* fetch_job(u) finishes: fetch_url returns, the payload is parsed, the main
\* thread extends raw_items
FetchJobEnd(j) ==
    /\ phase = "fetch"
    /\ jobs[j] = "running"
    /\ \E resp \in Responses(Urls[j]) :
          LET content == FetchResult(calls[j].entry, resp, clock).payload
          IN /\ FetchEnd(j, resp)
             /\ raw_items' = IF content = <<>> THEN raw_items
                             ELSE raw_items \o ParseItems(content, Urls[j])
    /\ jobs' = [jobs EXCEPT ![j] = "done"]
    /\ UNCHANGED <<clock, ret, ncalls, phase, run, disk, feeds_file, files, image_cache,
                   fulltext_cache, now, valid_items, idx, final_data_list,
                   netlog, prev>>
    /\ UNCHANGED callVars

\* lines 86-119: all futures are done; fix now, filter, dedupe, sort, cap
FilterSort ==
    /\ phase = "fetch"
    /\ \A j \in DOMAIN jobs : jobs[j] = "done"
    /\ now' = clock
    /\ valid_items' = ValidItems(raw_items, clock)
    /\ idx' = 1
    /\ final_data_list' = <<>>
    /\ phase' = "enrich"
    /\ UNCHANGED <<clock, feed_cache, calls, ret, lastOk, ncalls, run, disk, feeds_file, files,
                   image_cache, fulltext_cache, jobs, raw_items, netlog, prev>>
    /\ UNCHANGED callVars

(***************************************************************************)
(* build.main: the processing loop (enrich_job, process_image_url)         *)
(***************************************************************************)
\* BaseParser.parse on the page source: content, main image, all images
ParsePage(page_src) ==
    LET doc == page_src[1]
    IN [content  |-> doc.html,
        main_img |-> IF doc.og # EmptyUrl THEN doc.og
                     ELSE IF doc.imgs # <<>> THEN doc.imgs[1] ELSE EmptyUrl,
        all_imgs |-> doc.imgs]

\* p.clean_html(c_html, item.link): clean_html is declared async and the call
\* is not awaited, so the value is a coroutine object
CleanHtmlCall(fragment) == Coroutine

FulltextEntry(content, images, t) == [content |-> content, images |-> images, ts |-> t]

\* enrich_job on a cache hit (lines 146-152)
EnrichHit(item, ftc) ==
    LET full_html == Get(ftc[item.link], "content", "")
    IN IF full_html # "" THEN [item EXCEPT !.content_html = full_html] ELSE item

\* enrich_job on a miss (lines 153-182), given the server's answer
EnrichMiss(item, cache, ftc, resp, t) ==
    LET page_src == FetchResult(Get(cache, item.link, EmptyDict), resp, t).payload
        parsed   == ParsePage(page_src)
        c_html   == CleanHtmlCall(parsed.content)
    IN IF page_src = <<>>
       THEN [item |-> item, ftc |-> ftc]
       ELSE [item |-> [item EXCEPT
                          !.content_html = IF c_html # "" THEN c_html ELSE @,
                          !.rss_image = IF parsed.main_img # EmptyUrl
                                        THEN parsed.main_img ELSE @],
             ftc  |-> Put(ftc, item.link, FulltextEntry(c_html, parsed.all_imgs, t))]

\* the name process_image_url stores an image under; NoPath is None / ""
RelPath(url) == [dir |-> "images", md5 |-> url, ext |-> "jpg"]

NoPath == [dir |-> "", md5 |-> EmptyUrl, ext |-> ""]

\* process_image_url asks the network
ImageFetched(url, imgc) ==
    url # EmptyUrl /\ url \notin DOMAIN imgc /\ ~RequestRaises(url)

\* process_image_url (lines 206-248), given the server's answer
ProcessImageUrl(url, cache, imgc, fls, resp, t) ==
    LET data == FetchResult(Get(cache, url, EmptyDict), resp, t).payload
    IN IF url = EmptyUrl THEN [hero |-> NoPath, imgc |-> imgc, files |-> fls]
       ELSE IF url \in DOMAIN imgc THEN [hero |-> imgc[url], imgc |-> imgc, files |-> fls]
       ELSE IF RequestRaises(url) THEN [hero |-> NoPath, imgc |-> imgc, files |-> fls]
       ELSE IF data # JpegData THEN [hero |-> NoPath, imgc |-> imgc, files |-> fls]
       ELSE [hero  |-> RelPath(url),
             imgc  |-> Put(imgc, url, RelPath(url)),
             files |-> fls \cup {RelPath(url)}]

\* lines 275-286
ItemDict(item, hero) ==
    [link |-> item.link, pub_ts |-> item.pub_dt, source |-> item.source,
     category |-> item.category, hero_img |-> hero, content |-> item.content_html]

\* the feed cache and the history after an optional request
CacheAfterOpt(cache, url, resp, t) ==
    IF resp = NoResp THEN cache ELSE CacheAfter(cache, url, resp, t)

LastOkAfterOpt(hist, url, resp) ==
    IF resp = NoResp THEN hist ELSE LastOkAfter(hist, url, resp)

\* one pass of the loop at lines 261-287
EnrichItem ==
    /\ phase = "enrich"
    /\ idx <= Len(valid_items)
    /\ LET item0 == [valid_items[idx] EXCEPT !.category = MapCat(valid_items[idx].link)]
           hit   == item0.link \in DOMAIN fulltext_cache
       IN IF ~hit /\ RequestRaises(item0.link)
          THEN \* fetch_url raises out of enrich_job and out of main
               /\ phase' = "crashed"
               /\ valid_items' = [valid_items EXCEPT ![idx] = item0]
               /\ UNCHANGED <<feed_cache, lastOk, fulltext_cache, image_cache, files,
                              final_data_list, idx, netlog>>
          ELSE \E presp \in (IF hit THEN {NoResp} ELSE Responses(item0.link)) :
               LET e      == IF hit
                             THEN [item |-> EnrichHit(item0, fulltext_cache),
                                   ftc |-> fulltext_cache]
                             ELSE EnrichMiss(item0, feed_cache, fulltext_cache, presp, clock)
                   cache1 == CacheAfterOpt(feed_cache, item0.link, presp, clock)
                   hist1  == LastOkAfterOpt(lastOk, item0.link, presp)
                   img    == e.item.rss_image
                   asks   == ImageFetched(img, image_cache)
               IN \E iresp \in (IF asks THEN Responses(img) ELSE {NoResp}) :
                  LET h == ProcessImageUrl(img, cache1, image_cache, files, iresp, clock)
                  IN /\ feed_cache' = CacheAfterOpt(cache1, img, iresp, clock)
                     /\ lastOk' = LastOkAfterOpt(hist1, img, iresp)
                     /\ fulltext_cache' = e.ftc
                     /\ image_cache' = h.imgc
                     /\ files' = h.files
                     /\ valid_items' = [valid_items EXCEPT ![idx] = e.item]
                     /\ final_data_list' = Append(final_data_list, ItemDict(e.item, h.hero))
                     /\ netlog' = netlog \cup (IF hit THEN {} ELSE {item0.link})
                                         \cup (IF asks THEN {img} ELSE {})
                     /\ idx' = idx + 1
                     /\ phase' = phase
    /\ UNCHANGED <<clock, calls, ret, ncalls, run, disk, feeds_file, jobs, raw_items, now, prev>>
    /\ UNCHANGED callVars

(***************************************************************************)
(* build.main: saving the caches, rendering, the next run                  *)
(***************************************************************************)
\* lines 291-294
SaveCaches ==
    /\ phase = "enrich"
    /\ idx > Len(valid_items)
    /\ disk' = [feed     |-> JsonSave(feed_cache),
                image    |-> JsonSave(image_cache),
                fulltext |-> JsonSave(fulltext_cache)]
    /\ phase' = "render"
    /\ UNCHANGED <<clock, feed_cache, calls, ret, lastOk, ncalls, run, feeds_file,
                   files, image_cache, fulltext_cache, jobs, raw_items, now,
                   valid_items, idx, final_data_list, netlog, prev>>
    /\ UNCHANGED callVars

\* json.dumps(final_data_list) raises TypeError on a coroutine
Dumpable(list) == \A i \in DOMAIN list : list[i].content # Coroutine

\* lines 296-321
Render ==
    /\ phase = "render"
    /\ phase' = IF Dumpable(final_data_list) THEN "done" ELSE "crashed"
    /\ UNCHANGED <<clock, feed_cache, calls, ret, lastOk, ncalls, run, disk, feeds_file, files,
                   image_cache, fulltext_cache, jobs, raw_items, now, valid_items,
                   idx, final_data_list, netlog, prev>>
    /\ UNCHANGED callVars

\* the process has ended; build.py is invoked again, at once or an hour later
Rerun ==
    /\ phase \in {"done", "crashed"}
    /\ run = "first"
    /\ run' = "rerun"
    /\ prev' = [cache |-> fulltext_cache, out |-> final_data_list]
    /\ \E dt \in {0, 1} : clock' = clock + dt
    /\ phase' = "boot"
    /\ feed_cache' = EmptyDict
    /\ image_cache' = EmptyDict
    /\ fulltext_cache' = EmptyDict
    /\ lastOk' = EmptyDict
    /\ jobs' = <<>>
    /\ raw_items' = <<>>
    /\ now' = 0
    /\ valid_items' = <<>>
    /\ idx' = 0
    /\ final_data_list' = <<>>
    /\ netlog' = {}
    /\ UNCHANGED <<calls, ret, ncalls, disk, feeds_file, files>>
    /\ UNCHANGED callVars

\* the full-text cache files a run can find: none, or one left by an earlier
\* version of the build whose sanitizer returned a string
StoredFulltext ==
    { NoFile,
      JsonFile([l \in {LinkA} |-> FulltextEntry("<p>text</p>", <<>>, StartClock - 1)]),
      JsonFile([l \in {LinkA} |-> FulltextEntry("", <<>>, StartClock - 1)]) }

\* the feed list a run can find: the configured list, no file, a file that
\* is not a JSON document
FeedsFiles == {JsonFile(FeedList), NoFile, PartialFile}

Init ==
    /\ clock = StartClock
    /\ feed_cache = EmptyDict
    /\ calls = [c \in Callers |-> IdleCall]
    /\ ret = [c \in Callers |-> NoReturn]
    /\ lastOk = EmptyDict
    /\ ncalls = 0
    /\ phase = "boot"
    /\ run = "first"
    /\ \E ft \in StoredFulltext : disk = [feed |-> NoFile, image |-> NoFile, fulltext |-> ft]
    /\ feeds_file \in FeedsFiles
    /\ files = {}
    /\ image_cache = EmptyDict
    /\ fulltext_cache = EmptyDict
    /\ jobs = <<>>
    /\ raw_items = <<>>
    /\ now = 0
    /\ valid_items = <<>>
    /\ idx = 0
    /\ final_data_list = <<>>
    /\ netlog = {}
    /\ prev = EmptyDict
    /\ arg = NoArg
    /\ out = NoOut

Next ==
    \/ Load
    \/ \E j \in DOMAIN jobs : FetchJobStart(j)
    \/ \E j \in DOMAIN jobs : FetchJobEnd(j)
    \/ FilterSort
    \/ EnrichItem
    \/ SaveCaches
    \/ Render
    \/ Rerun

Spec == Init /\ [][Next]_vars

(***************************************************************************)
(* A site whose only feed is S3 and whose image cache may be left from an  *)
(* earlier run while the images directory is empty                         *)
(***************************************************************************)
StoredImages ==
    { [cache |-> NoFile, files |-> {}],
      [cache |-> JsonFile([u \in {ImgC} |-> RelPath(ImgC)]), files |-> {}] }

InitSite ==
    /\ clock = StartClock
    /\ feed_cache = EmptyDict
    /\ calls = [c \in Callers |-> IdleCall]
    /\ ret = [c \in Callers |-> NoReturn]
    /\ lastOk = EmptyDict
    /\ ncalls = 0
    /\ phase = "boot"
    /\ run = "first"
    /\ feeds_file = JsonFile(<<S3>>)
    /\ \E st \in StoredImages :
           /\ disk = [feed |-> NoFile, image |-> st.cache, fulltext |-> NoFile]
           /\ files = st.files
    /\ image_cache = EmptyDict
    /\ fulltext_cache = EmptyDict
    /\ jobs = <<>>
    /\ raw_items = <<>>
    /\ now = 0
    /\ valid_items = <<>>
    /\ idx = 0
    /\ final_data_list = <<>>
    /\ netlog = {}
    /\ prev = EmptyDict
    /\ arg = NoArg
    /\ out = NoOut

SpecSite == InitSite /\ [][Next]_vars

(***************************************************************************)
(* One run over a feed list longer than the pool: S3 and NDown endpoints   *)
(* that are down                                                           *)
(***************************************************************************)
PoolFeeds == <<S3>> \o [j \in 1..NDown |-> Down(j)]

InitPool ==
    /\ clock = StartClock
    /\ feed_cache = EmptyDict
    /\ calls = [c \in Callers |-> IdleCall]
    /\ ret = [c \in Callers |-> NoReturn]
    /\ lastOk = EmptyDict
    /\ ncalls = 0
    /\ phase = "boot"
    /\ run = "first"
    /\ feeds_file = JsonFile(PoolFeeds)
    /\ disk = [feed |-> NoFile, image |-> NoFile, fulltext |-> NoFile]
    /\ files = {}
    /\ image_cache = EmptyDict
    /\ fulltext_cache = EmptyDict
    /\ jobs = <<>>
    /\ raw_items = <<>>
    /\ now = 0
    /\ valid_items = <<>>
    /\ idx = 0
    /\ final_data_list = <<>>
    /\ netlog = {}
    /\ prev = EmptyDict
    /\ arg = NoArg
    /\ out = NoOut

NextOneRun ==
    \/ Load
    \/ \E j \in DOMAIN jobs : FetchJobStart(j)
    \/ \E j \in DOMAIN jobs : FetchJobEnd(j)
    \/ FilterSort
    \/ EnrichItem
    \/ SaveCaches
    \/ Render

SpecPool == InitPool /\ [][NextOneRun]_vars

(***************************************************************************)
(* A run whose window holds more items than the snapshot may carry: the    *)
(* futures are done, raw_items holds what one large feed document gave     *)
(***************************************************************************)
\* how many entries beyond DEFAULT_MAX_ITEMS the document can have
Overflow == 2

\* positions of the document whose entry may be the newest
HotSpots == {1, 2, DEFAULT_MAX_ITEMS - 1, DEFAULT_MAX_ITEMS} \cup
            {DEFAULT_MAX_ITEMS + k : k \in 1..Overflow}

BulkLink(i) == Url("https", "news", ToString(i), "", "")

\* a document of n entries, all within the lookback window; the entries at
\* the positions in hot were published three hours after the others
BulkDoc(n, hot) ==
    [i \in 1..n |-> FeedEntry(RawLink(BulkLink(i), ""),
                              IF i \in hot THEN StartClock ELSE StartClock - 3,
                              EmptyUrl)]

InitCap ==
    /\ clock = StartClock
    /\ feed_cache = EmptyDict
    /\ calls = <<IdleCall>>
    /\ ret = [c \in Callers |-> NoReturn]
    /\ lastOk = EmptyDict
    /\ ncalls = 0
    /\ phase = "fetch"
    /\ run = "first"
    /\ feeds_file = JsonFile(<<S3>>)
    /\ disk = [feed |-> NoFile, image |-> NoFile, fulltext |-> NoFile]
    /\ files = {}
    /\ image_cache = EmptyDict
    /\ fulltext_cache = EmptyDict
    /\ jobs = <<"done">>
    /\ \E n \in (DEFAULT_MAX_ITEMS - 1)..(DEFAULT_MAX_ITEMS + Overflow) :
       \E hot \in SUBSET (HotSpots \cap 1..n) :
           raw_items = ParseItems(BulkDoc(n, hot), S3)
    /\ now = 0
    /\ valid_items = <<>>
    /\ idx = 0
    /\ final_data_list = <<>>
    /\ netlog = {}
    /\ prev = EmptyDict
    /\ arg = NoArg
    /\ out = NoOut

NextCap == FilterSort

SpecCap == InitCap /\ [][NextCap]_vars

(***************************************************************************)
(* parse_items applied on its own to the payloads a feed endpoint or a     *)
(* listing page can serve                                                  *)
(***************************************************************************)
\* how many chunks a feed document has at most, how many anchors a page
MaxChunks  == 3
MaxAnchors == 2

\* listing pages that are scraped
Hk01List == Url("https", "hk01", "latest", "", "")
OnccList == Url("https", "on.cc", "news", "", "")

\* an entry without <link>, and an entry whose processing raises: its link has
\* a netloc urlsplit rejects and its enclosure is relative
NoLinkEntry == FeedEntry(RawLink(EmptyUrl, ""), 7, EmptyUrl)
BadEntry    == FeedEntry(RawLink(Url("http", BadHost, "", "", ""), ""), 7,
                         Url("", "", "x.jpg", "", ""))
BadDescEntry == DescImageEntry(RawLink(Url("http", BadHost, "", "", ""), ""), 7,
                               Url("", "", "x.jpg", "", ""))

FeedChunks ==
    { FeedEntry(RawLink(LinkC, ""), 9, ImgC),
      FeedEntry(RawLink(RelLink, ""), 8, EmptyUrl),
      NoLinkEntry, BadEntry, BadDescEntry, Stray, NoMarkup }

PageAnchors ==
    { Anchor(Url("https", "hk01", "article", "id=1", ""), "headline"),
      Anchor(Url("https", "hk01", "article", "id=2", ""), "more"),
      Anchor(Url("https", "on.cc", "bkn/cnt", "id=1", ""), "headline"),
      Anchor(Url("https", "hk01", "zone", "", ""), "channel") }

SeqsUpTo(S, n) == UNION {[1..k -> S] : k \in 0..n}

ParseInputs ==
    {[fn |-> "parse_items", payload |-> p, source |-> S3] :
        p \in SeqsUpTo(FeedChunks, MaxChunks)}
    \cup
    {[fn |-> "parse_items", payload |-> <<HtmlPage(a)>>, source |-> src] :
        a \in SeqsUpTo(PageAnchors, MaxAnchors), src \in {Hk01List, OnccList, S3}}

\* every variable of the build and of the Fetcher at rest
AtRest ==
    /\ clock = StartClock
    /\ feed_cache = EmptyDict
    /\ calls = [c \in Callers |-> IdleCall]
    /\ ret = [c \in Callers |-> NoReturn]
    /\ lastOk = EmptyDict
    /\ ncalls = 0
    /\ phase = "off"
    /\ run = "first"
    /\ disk = [feed |-> NoFile, image |-> NoFile, fulltext |-> NoFile]
    /\ feeds_file = NoFile
    /\ files = {}
    /\ image_cache = EmptyDict
    /\ fulltext_cache = EmptyDict
    /\ jobs = <<>>
    /\ raw_items = <<>>
    /\ now = 0
    /\ valid_items = <<>>
    /\ idx = 0
    /\ final_data_list = <<>>
    /\ netlog = {}
    /\ prev = EmptyDict

restVars == <<clock, feed_cache, calls, ret, lastOk, ncalls, phase, run, disk,
              feeds_file, files, image_cache, fulltext_cache, jobs, raw_items, now,
              valid_items, idx, final_data_list, netlog, prev>>

InitParse ==
    /\ AtRest
    /\ arg \in ParseInputs
    /\ out = NoOut

ApplyParseItems ==
    /\ arg.fn = "parse_items"
    /\ out = NoOut
    /\ out' = ParseItemsCall(arg.payload, arg.source)
    /\ UNCHANGED arg
    /\ UNCHANGED restVars

NextParse == ApplyParseItems

SpecParse == InitParse /\ [][NextParse]_vars

(***************************************************************************)
(* HK01Parser.parse applied on its own.  An article page is what the two   *)
(* tiers read of it: the JSON of its __NEXT_DATA__ script, and its first   *)
(* <article> element.  Markup is the sequence of its parts.                *)
(***************************************************************************)
MaxBlocks == 3

\* the JSON blob: no script in the page, text json.loads rejects, a document
\* without props.pageProps.article, or an article with its blocks
NoScript    == [kind |-> "absent"]
BadJson     == [kind |-> "invalid"]
NoArticle   == [kind |-> "no_article"]
NextData(blocks) == [kind |-> "article", blocks |-> blocks]

\* a block: its type, and of its data the text, the image url and the caption;
\* data is a dict unless the block is DataNull ("data": null)
Block(type, text, url) == [type |-> type, text |-> text, url |-> url, data |-> "dict"]

DataNull == [type |-> "text", text |-> "", url |-> EmptyUrl, data |-> "null"]

Hk01Blocks ==
    { Block("text", "para", EmptyUrl), Block("text", "", EmptyUrl),
      Block("image", "cap", ImgC), Block("image", "cap", EmptyUrl),
      Block("header", "head", EmptyUrl), Block("video", "", EmptyUrl),
      DataNull }

\* the <article> element: none, or its <img> elements with their data-src
\* and src; a page lxml.html.fromstring rejects has neither
NoNode    == [kind |-> "absent"]
BadMarkup == [kind |-> "unparseable"]
ArticleNode(imgs) == [kind |-> "article", imgs |-> imgs]

LazyImg(data_src, src) == [data_src |-> data_src, src |-> src]

Hk01Nodes ==
    { NoNode, BadMarkup, ArticleNode(<<>>),
      ArticleNode(<<LazyImg(ImgP, EmptyUrl), LazyImg(EmptyUrl, ImgC)>>) }

\* lines 528-552: what one block appends to html_parts
Renders(block) ==
    \/ block.type = "text" /\ block.text # ""
    \/ block.type = "image" /\ block.url # EmptyUrl
    \/ block.type = "header" /\ block.text # ""

Rendered(block) ==
    CASE block.type = "text"   -> [tag |-> "p", text |-> block.text]
      [] block.type = "image"  -> [tag |-> "figure", src |-> block.url,
                                   caption |-> block.text]
      [] block.type = "header" -> [tag |-> "h3", text |-> block.text]

IsImage(block) == block.type = "image" /\ block.url # EmptyUrl

ParsedPage(content_html, main_img, all_imgs, tier) ==
    [status |-> "returned", content_html |-> content_html, main_img |-> main_img,
     all_imgs |-> all_imgs, tier |-> tier]

\* lines 498-558: the first tier returns when the blob parses, the article has
\* blocks, no block raises (b_data.get on None) and a block rendered
StructuredTier(data) ==
    IF data.kind # "article" THEN ParsedPage(<<>>, EmptyUrl, <<>>, "none")
    ELSE IF \E i \in DOMAIN data.blocks : data.blocks[i].data = "null"
         THEN ParsedPage(<<>>, EmptyUrl, <<>>, "none")
    ELSE LET parts == SelectSeq(data.blocks, Renders)
             imgs  == SelectSeq(data.blocks, IsImage)
         IN IF parts = <<>> THEN ParsedPage(<<>>, EmptyUrl, <<>>, "none")
            ELSE ParsedPage([k \in DOMAIN parts |-> Rendered(parts[k])],
                            IF imgs = <<>> THEN EmptyUrl ELSE imgs[1].url,
                            [k \in DOMAIN imgs |-> imgs[k].url],
                            "blocks")

RealSrc(img) == IF img.data_src # EmptyUrl THEN img.data_src ELSE img.src

HasSrc(img) == RealSrc(img) # EmptyUrl

\* lines 564-592: the first <article>, its images with data-src made src
HtmlTier(node) ==
    IF node.kind # "article" THEN ParsedPage(<<>>, EmptyUrl, <<>>, "none")
    ELSE LET srcs == [k \in DOMAIN SelectSeq(node.imgs, HasSrc) |->
                         RealSrc(SelectSeq(node.imgs, HasSrc)[k])]
         IN ParsedPage(<<[tag |-> "article", imgs |-> srcs]>>,
                       IF srcs = <<>> THEN EmptyUrl ELSE srcs[1],
                       srcs, "html")

\* variant: the <article> element is preferred whenever the page has one
Hk01Parse_HtmlFirst(data, node) ==
    IF HtmlTier(node).tier = "html" THEN HtmlTier(node)
    ELSE StructuredTier(data)

\* HK01Parser.parse
Hk01Parse(data, node) ==
    IF StructuredTier(data).tier = "blocks" THEN StructuredTier(data)
    ELSE HtmlTier(node)

Hk01Inputs ==
    {[fn |-> "hk01_parse", data |-> d, node |-> n] :
        d \in {NoScript, BadJson, NoArticle}
              \cup {NextData(b) : b \in SeqsUpTo(Hk01Blocks, MaxBlocks)},
        n \in Hk01Nodes}

InitHk01 ==
    /\ AtRest
    /\ arg \in Hk01Inputs
    /\ out = NoOut

ApplyHk01Parse ==
    /\ arg.fn = "hk01_parse"
    /\ out = NoOut
    /\ out' = Hk01Parse(arg.data, arg.node)
    /\ UNCHANGED arg
    /\ UNCHANGED restVars

NextHk01 == ApplyHk01Parse

SpecHk01 == InitHk01 /\ [][NextHk01]_vars

(***************************************************************************)
(* clean_html_fragment applied on its own.  Markup is the sequence of its  *)
(* nodes: text, <img>, and elements with their children; the text that     *)
(* follows an element (its tail, for lxml) is the text node behind it.     *)
(* The origins rthk.hk, mingpao.com and stheadline.com are not among the   *)
(* inputs, and no node here has a class attribute, so the passes that look *)
(* at either do nothing.                                                   *)
(***************************************************************************)
MaxNodes == 2

Text(s) == [tag |-> "#text", text |-> s]

Img(src) == [tag |-> "img", src |-> src]

Elem(tag, href, kids) == [tag |-> tag, href |-> href, kids |-> kids]

\* content fragment_fromstring raises on
Rejected == [tag |-> "#rejected"]

IsText(node) == node.tag = "#text"

IsElem(node) == node.tag \notin {"#text", "img", "#rejected"}

\* seq without the text at its front: the tail of the element before it
RECURSIVE DropTail(_)
DropTail(seq) == IF seq # <<>> /\ IsText(seq[1]) THEN DropTail(Tail(seq)) ELSE seq

\* the text at the front of seq
RECURSIVE TailText(_)
TailText(seq) ==
    IF seq # <<>> /\ IsText(seq[1]) THEN <<seq[1]>> \o TailText(Tail(seq)) ELSE <<>>

\* the element or image at the front of seq together with its tail
WithTail(seq) == <<seq[1]>> \o TailText(Tail(seq))

\* text_content().strip()
RECURSIVE TextContent(_)
TextContent(kids) ==
    IF kids = <<>> THEN ""
    ELSE (IF IsText(Head(kids)) THEN Head(kids).text
          ELSE IF IsElem(Head(kids)) THEN TextContent(Head(kids).kids)
          ELSE "") \o TextContent(Tail(kids))

\* xpath(".//img"), each image with its tail
RECURSIVE ImgsWithTails(_)
ImgsWithTails(kids) ==
    IF kids = <<>> THEN <<>>
    ELSE IF Head(kids).tag = "img"
         THEN WithTail(kids) \o ImgsWithTails(DropTail(Tail(kids)))
    ELSE IF IsElem(Head(kids))
         THEN ImgsWithTails(Head(kids).kids) \o ImgsWithTails(Tail(kids))
    ELSE ImgsWithTails(Tail(kids))

HasImg(kids) == ImgsWithTails(kids) # <<>>

\* line 104: the fragment parses
Parses(fragment) == \A i \in DOMAIN fragment : fragment[i] # Rejected

\* lines 105-106: script, style, noscript, video, iframe and button are
\* removed; remove() takes the tail of the element with it
UnsafeTags == {"script", "style", "noscript", "video", "iframe", "button"}

RECURSIVE RemoveUnsafe(_)
RemoveUnsafe(kids) ==
    IF kids = <<>> THEN <<>>
    ELSE IF Head(kids).tag \in UnsafeTags THEN RemoveUnsafe(DropTail(Tail(kids)))
    ELSE IF IsElem(Head(kids))
         THEN <<[Head(kids) EXCEPT !.kids = RemoveUnsafe(@)]>> \o RemoveUnsafe(Tail(kids))
    ELSE <<Head(kids)>> \o RemoveUnsafe(Tail(kids))

\* src.split('/')[-1].split('?')[0].lower()
FName(url) == url.path

\* lines 115-124: the first image with the file name of the hero image is
\* dropped (drop_tree keeps the tail); found says whether one was
RECURSIVE DropHero(_, _, _)
DropHero(kids, hero_img, found) ==
    IF kids = <<>> \/ found THEN [kids |-> kids, found |-> found]
    ELSE IF Head(kids).tag = "img" /\ FName(Head(kids).src) = FName(hero_img)
         THEN [kids |-> Tail(kids), found |-> TRUE]
    ELSE IF IsElem(Head(kids))
         THEN LET inner == DropHero(Head(kids).kids, hero_img, found)
                  rest  == DropHero(Tail(kids), hero_img, inner.found)
              IN [kids  |-> <<[Head(kids) EXCEPT !.kids = inner.kids]>> \o rest.kids,
                  found |-> rest.found]
    ELSE LET rest == DropHero(Tail(kids), hero_img, found)
         IN [kids |-> <<Head(kids)>> \o rest.kids, found |-> rest.found]

HeroPass(kids, hero_img) ==
    IF hero_img # EmptyUrl /\ Len(FName(hero_img)) > 5
    THEN DropHero(kids, hero_img, FALSE).kids
    ELSE kids

Span(text) == Elem("span", EmptyUrl, <<Text(text)>>)

\* lines 196-214, unwire.hk: before each <a href> go its images, then a
\* <span> of its text; the <a> is removed with its tail
RECURSIVE Unwire(_)
Unwire(kids) ==
    IF kids = <<>> THEN <<>>
    ELSE IF Head(kids).tag = "a" /\ Head(kids).href # EmptyUrl
         THEN ImgsWithTails(Head(kids).kids)
                  \o (IF TextContent(Head(kids).kids) # ""
                      THEN <<Span(TextContent(Head(kids).kids))>> ELSE <<>>)
                  \o Unwire(DropTail(Tail(kids)))
    ELSE IF IsElem(Head(kids))
         THEN <<[Head(kids) EXCEPT !.kids = Unwire(@)]>> \o Unwire(Tail(kids))
    ELSE <<Head(kids)>> \o Unwire(Tail(kids))

\* lines 291-306: every <img src> is made absolute; urljoin may raise
RECURSIVE ImgPassRaises(_, _)
ImgPassRaises(kids, base_url) ==
    /\ kids # <<>>
    /\ \/ Head(kids).tag = "img" /\ UrlJoinRaises(base_url, Head(kids).src)
       \/ IsElem(Head(kids)) /\ ImgPassRaises(Head(kids).kids, base_url)
       \/ ImgPassRaises(Tail(kids), base_url)

RECURSIVE ImgPass(_, _)
ImgPass(kids, base_url) ==
    IF kids = <<>> THEN <<>>
    ELSE (IF Head(kids).tag = "img"
          THEN <<Img(NormalizeImageUrl(base_url, Head(kids).src))>>
          ELSE IF IsElem(Head(kids))
          THEN <<[Head(kids) EXCEPT !.kids = ImgPass(@, base_url)]>>
          ELSE <<Head(kids)>>) \o ImgPass(Tail(kids), base_url)

\* f"images/{local_name}", a relative reference; the digest in the name is
\* written as the path of the key it is the digest of
LocalRef(name) == Url("", "", "images/" \o name.sha1.path, "", "")

\* fetcher.download_image(src): the file name, or "" when nothing is stored
LocalName(fetcher, src) ==
    IF fetcher = "up" /\ src # EmptyUrl /\ ~RequestRaises(src)
    THEN FileName(NormalizedKey(src), JpegData)
    ELSE NoName

\* lines 313-331: with a fetcher, every image that it stores gets the local
\* file as its src
RECURSIVE DownloadPass(_, _)
DownloadPass(kids, fetcher) ==
    IF kids = <<>> THEN <<>>
    ELSE (IF Head(kids).tag = "img" /\ LocalName(fetcher, Head(kids).src) # NoName
          THEN <<Img(LocalRef(LocalName(fetcher, Head(kids).src)))>>
          ELSE IF IsElem(Head(kids))
          THEN <<[Head(kids) EXCEPT !.kids = DownloadPass(@, fetcher)]>>
          ELSE <<Head(kids)>>) \o DownloadPass(Tail(kids), fetcher)

\* lines 351-360, cnbeta: an image whose file name was seen is dropped
RECURSIVE DedupImgs(_, _)
DedupImgs(kids, seen) ==
    IF kids = <<>> THEN [kids |-> <<>>, seen |-> seen]
    ELSE IF Head(kids).tag = "img"
         THEN IF Head(kids).src = EmptyUrl \/ Len(FName(Head(kids).src)) < 5
              THEN LET rest == DedupImgs(Tail(kids), seen)
                   IN [kids |-> <<Head(kids)>> \o rest.kids, seen |-> rest.seen]
              ELSE IF FName(Head(kids).src) \in seen
              THEN DedupImgs(Tail(kids), seen)
              ELSE LET rest == DedupImgs(Tail(kids), seen \cup {FName(Head(kids).src)})
                   IN [kids |-> <<Head(kids)>> \o rest.kids, seen |-> rest.seen]
    ELSE IF IsElem(Head(kids))
         THEN LET inner == DedupImgs(Head(kids).kids, seen)
                  rest  == DedupImgs(Tail(kids), inner.seen)
              IN [kids |-> <<[Head(kids) EXCEPT !.kids = inner.kids]>> \o rest.kids,
                  seen |-> rest.seen]
    ELSE LET rest == DedupImgs(Tail(kids), seen)
         IN [kids |-> <<Head(kids)>> \o rest.kids, seen |-> rest.seen]

\* lines 374-381: the href of every <a href> is made absolute; an <a> whose
\* href is then not http(s) is unwrapped (drop_tag)
RECURSIVE LinkPassRaises(_, _)
LinkPassRaises(kids, base_url) ==
    /\ kids # <<>>
    /\ \/ /\ Head(kids).tag = "a" /\ Head(kids).href # EmptyUrl
          /\ UrlJoinRaises(base_url, Head(kids).href)
       \/ IsElem(Head(kids)) /\ LinkPassRaises(Head(kids).kids, base_url)
       \/ LinkPassRaises(Tail(kids), base_url)

RECURSIVE LinkPass(_, _)
LinkPass(kids, base_url) ==
    IF kids = <<>> THEN <<>>
    ELSE (IF Head(kids).tag = "a" /\ Head(kids).href # EmptyUrl
          THEN IF NormalizeImageUrl(base_url, Head(kids).href).scheme \in {"http", "https"}
               THEN <<[Head(kids) EXCEPT
                          !.href = NormalizeImageUrl(base_url, @),
                          !.kids = LinkPass(@, base_url)]>>
               ELSE LinkPass(Head(kids).kids, base_url)
          ELSE IF IsElem(Head(kids))
          THEN <<[Head(kids) EXCEPT !.kids = LinkPass(@, base_url)]>>
          ELSE <<Head(kids)>>) \o LinkPass(Tail(kids), base_url)

\* lines 383-384, hk01.com: every <a> is unwrapped
RECURSIVE DropAnchorTags(_)
DropAnchorTags(kids) ==
    IF kids = <<>> THEN <<>>
    ELSE (IF Head(kids).tag = "a" THEN DropAnchorTags(Head(kids).kids)
          ELSE IF IsElem(Head(kids))
          THEN <<[Head(kids) EXCEPT !.kids = DropAnchorTags(@)]>>
          ELSE <<Head(kids)>>) \o DropAnchorTags(Tail(kids))

\* lines 387-393, hk01.com: p, div, section and span without image and
\* without text are removed, with their tails
RECURSIVE RemoveBlank(_)
RemoveBlank(kids) ==
    IF kids = <<>> THEN <<>>
    ELSE IF /\ Head(kids).tag \in {"p", "div", "section", "span"}
            /\ ~HasImg(Head(kids).kids)
            /\ TextContent(Head(kids).kids) = ""
         THEN RemoveBlank(DropTail(Tail(kids)))
    ELSE IF IsElem(Head(kids))
         THEN <<[Head(kids) EXCEPT !.kids = RemoveBlank(@)]>> \o RemoveBlank(Tail(kids))
    ELSE <<Head(kids)>> \o RemoveBlank(Tail(kids))

\* lines 449-458, cnbeta: an <a> with text is replaced by a <span> of the
\* text, an <a> without text is removed; either way its tail goes with it
RECURSIVE SpanForAnchors(_)
SpanForAnchors(kids) ==
    IF kids = <<>> THEN <<>>
    ELSE IF Head(kids).tag = "a"
         THEN (IF TextContent(Head(kids).kids) # ""
               THEN <<Span(TextContent(Head(kids).kids))>> ELSE <<>>)
                  \o SpanForAnchors(DropTail(Tail(kids)))
    ELSE IF IsElem(Head(kids))
         THEN <<[Head(kids) EXCEPT !.kids = SpanForAnchors(@)]>>
                  \o SpanForAnchors(Tail(kids))
    ELSE <<Head(kids)>> \o SpanForAnchors(Tail(kids))

\* lines 463-493, cnbeta: an image without src is dropped, and so is a
\* span, div, i, b, strong, p or figure that has no text and no image
\* (drop_tree keeps the tail); no text here is of private-use characters or
\* of punctuation only
RECURSIVE DropGarbage(_)
DropGarbage(kids) ==
    IF kids = <<>> THEN <<>>
    ELSE IF Head(kids).tag = "img"
         THEN (IF Head(kids).src = EmptyUrl THEN <<>> ELSE <<Head(kids)>>)
                  \o DropGarbage(Tail(kids))
    ELSE IF /\ Head(kids).tag \in {"span", "div", "i", "b", "strong", "p", "figure"}
            /\ ~HasImg(Head(kids).kids)
            /\ TextContent(Head(kids).kids) = ""
         THEN DropGarbage(Tail(kids))
    ELSE IF IsElem(Head(kids))
         THEN <<[Head(kids) EXCEPT !.kids = DropGarbage(@)]>> \o DropGarbage(Tail(kids))
    ELSE <<Head(kids)>> \o DropGarbage(Tail(kids))

\* the position of the last child of the root that is not text, 0 if none
LastChild(kids) ==
    IF \E i \in DOMAIN kids : ~IsText(kids[i])
    THEN CHOOSE i \in DOMAIN kids :
             ~IsText(kids[i]) /\ \A j \in DOMAIN kids : j > i => IsText(kids[j])
    ELSE 0

WithoutAt(kids, i) == SubSeq(kids, 1, i - 1) \o SubSeq(kids, i + 1, Len(kids))

ChildText(node) == IF IsElem(node) THEN TextContent(node.kids) ELSE ""

ChildHasImg(node) == node.tag = "img" \/ (IsElem(node) /\ HasImg(node.kids))

\* lines 513-538, cnbeta: while the last child of the root is a figure, img,
\* div, span or p with at most 10 characters of text, and it has an image or
\* fewer than 5 characters, it is dropped
RECURSIVE TrimTail(_)
TrimTail(kids) ==
    LET i == LastChild(kids)
    IN IF i = 0 THEN kids
       ELSE IF /\ kids[i].tag \in {"figure", "img", "div", "span", "p"}
               /\ Len(ChildText(kids[i])) <= 10
               /\ ChildHasImg(kids[i]) \/ Len(ChildText(kids[i])) < 5
            THEN TrimTail(WithoutAt(kids, i))
       ELSE kids

\* lines 541-545: elements without child and without text, other than img
\* and br, are dropped
RECURSIVE Prune(_)
Prune(kids) ==
    IF kids = <<>> THEN <<>>
    ELSE IF IsElem(Head(kids)) /\ Head(kids).kids = <<>> THEN Prune(Tail(kids))
    ELSE IF IsElem(Head(kids))
         THEN <<[Head(kids) EXCEPT !.kids = Prune(@)]>> \o Prune(Tail(kids))
    ELSE <<Head(kids)>> \o Prune(Tail(kids))

\* the children of the root before the image pass: lines 104-214
BeforeImgPass(fragment, base_url, hero_img) ==
    LET safe == HeroPass(RemoveUnsafe(fragment), hero_img)
    IN IF base_url.host = "unwire.hk" THEN Unwire(safe) ELSE safe

\* the children of the root before the link pass: lines 291-360
BeforeLinkPass(fragment, base_url, fetcher, hero_img) ==
    LET imgs   == ImgPass(BeforeImgPass(fragment, base_url, hero_img), base_url)
        stored == IF fetcher = "none" THEN imgs ELSE DownloadPass(imgs, fetcher)
    IN IF base_url.host = "cnbeta.com.tw" THEN DedupImgs(stored, {}).kids ELSE stored

\* the children of the root when it is serialized: lines 374-545
AfterPasses(fragment, base_url, fetcher, hero_img) ==
    LET links == LinkPass(BeforeLinkPass(fragment, base_url, fetcher, hero_img), base_url)
        site  == CASE base_url.host = "hk01.com" -> RemoveBlank(DropAnchorTags(links))
                   [] base_url.host = "cnbeta.com.tw" ->
                          TrimTail(DropGarbage(SpanForAnchors(links)))
                   [] OTHER -> links
    IN Prune(site)

\* an exception leaves the try block of lines 103-549
CleanRaises(fragment, base_url, fetcher, hero_img) ==
    \/ ~Parses(fragment)
    \/ ImgPassRaises(BeforeImgPass(fragment, base_url, hero_img), base_url)
    \/ LinkPassRaises(BeforeLinkPass(fragment, base_url, fetcher, hero_img), base_url)

\* clean_html_fragment: "" for an empty fragment; the fragment itself when
\* an exception is caught at line 548; else the root <div> that
\* fragment_fromstring(create_parent="div") put around the nodes, serialized
clean_html_fragment(fragment, base_url, fetcher, hero_img) ==
    IF fragment = <<>> THEN <<>>
    ELSE IF CleanRaises(fragment, base_url, fetcher, hero_img) THEN fragment
    ELSE <<Elem("div", EmptyUrl, AfterPasses(fragment, base_url, fetcher, hero_img))>>

\* article pages of the origins, and an image whose file name is long
\* enough to be compared with the hero image
UnwirePage == Url("https", "unwire.hk", "a", "", "")
Hk01Page   == Url("https", "hk01.com", "a", "", "")
CnbetaPage == Url("https", "cnbeta.com.tw", "a", "", "")
ImgHero    == Url("https", "img", "hero.jpg", "", "")
RelImg     == Url("", "", "r.jpg", "", "")
BadImg     == Url("foo", BadHost, "x.jpg", "", "")

FragmentNodes ==
    { Text("a longer sentence"),
      Img(ImgC), Img(RelImg), Img(BadImg), Img(ImgHero),
      Elem("a", LinkB, <<Text("text")>>),
      Elem("a", LinkB, <<Img(ImgC)>>),
      Elem("a", EmptyUrl, <<Text("text")>>),
      Elem("script", EmptyUrl, <<Text("code")>>),
      Rejected }

CleanInputs ==
    {[fn |-> "clean_html_fragment", fragment |-> f, base_url |-> b, fetcher |-> ft,
      hero_img |-> h] :
        f \in SeqsUpTo(FragmentNodes, MaxNodes),
        b \in {UnwirePage, Hk01Page, CnbetaPage, LinkC},
        ft \in {"none", "up", "down"},
        h \in {EmptyUrl, ImgHero}}

Cleaned(html, again) == [status |-> "returned", html |-> html, again |-> again]

\* the second sanitization has not been made
NotYet == [done |-> FALSE]

Again(html) == [done |-> TRUE, html |-> html]

InitClean ==
    /\ AtRest
    /\ arg \in CleanInputs
    /\ out = NoOut

ApplyClean ==
    /\ arg.fn = "clean_html_fragment"
    /\ out = NoOut
    /\ out' = Cleaned(clean_html_fragment(arg.fragment, arg.base_url, arg.fetcher,
                                          arg.hero_img), NotYet)
    /\ UNCHANGED arg
    /\ UNCHANGED restVars

\* the output is sanitized again, for the same origin and hero image
ApplyCleanAgain ==
    /\ arg.fn = "clean_html_fragment"
    /\ out # NoOut
    /\ out.again = NotYet
    /\ out' = [out EXCEPT !.again = Again(clean_html_fragment(out.html, arg.base_url,
                                                              arg.fetcher, arg.hero_img))]
    /\ UNCHANGED arg
    /\ UNCHANGED restVars

NextClean ==
    \/ ApplyClean
    \/ ApplyCleanAgain

SpecClean == InitClean /\ [][NextClean]_vars

(***************************************************************************)
(* Properties of fetch_url                                                 *)
(***************************************************************************)
\* caller c returns from fetch_url in this step
Returns(c) == calls[c].pc = "open" /\ calls'[c].pc = "idle"

Failed(r) == r.status = "returned" /\ r.resp.kind \in {"http", "neterr"}

FallbackCorrect(r) ==
    IF HasPayload(r.entry)
    THEN r.payload = B64Decode(r.entry.payload_b64)
    ELSE r.payload = <<>> /\ r.meta = EmptyDict

FailureKeepsCache ==
    \A c \in Callers :
        (Returns(c) /\ ret'[c].resp.kind # "ok") => feed_cache' = feed_cache

\* C1: a fetch_url call that ends in a transport or HTTP error returns the
\* payload the feed cache held for its URL when the call consulted the cache,
\* or the empty result (b"", {}) when the cache held none; the failing call
\* leaves the feed cache exactly as it was.
C1_FailureFallsBackToCache ==
    /\ [](\A c \in Callers : Failed(ret[c]) => FallbackCorrect(ret[c]))
    /\ [][FailureKeepsCache]_vars

\* a failing call has returned a payload that was cached
C1_Witness ==
    \E c \in Callers :
        /\ Failed(ret[c])
        /\ HasPayload(ret[c].entry)
        /\ ret[c].payload # <<>>

EntryHolds(entry, resp) ==
    /\ DOMAIN entry = {"payload_b64", "etag", "last_modified", "timestamp"}
    /\ B64Decode(entry.payload_b64) = resp.payload
    /\ entry.etag = resp.etag
    /\ entry.last_modified = resp.last_modified

OnlyOwnKeyTouched ==
    \A c \in Callers :
        Returns(c) =>
            /\ DOMAIN feed_cache' \subseteq (DOMAIN feed_cache) \cup {calls[c].url}
            /\ \A k \in DOMAIN feed_cache :
                   k # calls[c].url => (k \in DOMAIN feed_cache' /\ feed_cache'[k] = feed_cache[k])

\* C2: the feed-cache entry of a URL holds the payload, the ETag and the
\* Last-Modified of the most recent successful fetch of that URL, and nothing
\* else of an earlier entry; a returning call touches no key but its own URL.
C2_EntryIsLastSuccess ==
    /\ [](\A u \in DOMAIN lastOk :
              u \in DOMAIN feed_cache /\ EntryHolds(feed_cache[u], lastOk[u]))
    /\ [][OnlyOwnKeyTouched]_vars

\* a successful fetch has replaced an entry that held other tokens, while
\* another URL has an entry too
C2_Witness ==
    \E c \in Callers :
        /\ ret[c].status = "returned"
        /\ ret[c].resp.kind = "ok"
        /\ HasPayload(ret[c].entry)
        /\ ret[c].entry.etag # ret[c].resp.etag
        /\ \E k \in DOMAIN feed_cache : k # ret[c].url

\* C3: fetch_url never raises to its caller, whatever the URL and the
\* network outcome.
C3_NeverRaises == \A c \in Callers : ret[c].status # "raised"

NotModifiedHit(r) ==
    r.status = "returned" /\ r.resp = HttpErr(304) /\ HasPayload(r.entry)

NotModifiedKeepsEntry ==
    \A c \in Callers :
        (Returns(c) /\ ret'[c].resp = HttpErr(304) /\ calls[c].url \in DOMAIN feed_cache)
            => /\ calls[c].url \in DOMAIN feed_cache'
               /\ feed_cache'[calls[c].url] = feed_cache[calls[c].url]

\* C4: on a 304 answer for a URL with a cached payload, fetch_url returns
\* exactly the cached payload bytes and the entry of that URL (payload,
\* tokens, timestamp) stays as it was.
C4_NotModifiedReturnsCached ==
    /\ [](\A c \in Callers :
              NotModifiedHit(ret[c]) =>
                  /\ ret[c].payload = B64Decode(ret[c].entry.payload_b64)
                  /\ ret[c].meta = ret[c].entry)
    /\ [][NotModifiedKeepsEntry]_vars

\* a 304 was answered from an entry written at an earlier hour
C4_Witness ==
    \E c \in Callers :
        /\ NotModifiedHit(ret[c])
        /\ ret[c].entry.timestamp < clock
        /\ feed_cache[ret[c].url] = ret[c].entry

\* the tokens the feed cache holds for a url; "" where it holds none
CachedTokens(url) ==
    LET entry == Get(feed_cache, url, EmptyDict)
    IN [etag |-> Get(entry, "etag", ""), last_modified |-> Get(entry, "last_modified", "")]

\* a call that opens its request in this step sends the tokens cached for
\* its own url, and no token where none is cached
SendsOwnTokens ==
    \A c \in Callers :
        (calls[c].pc = "idle" /\ calls'[c].pc = "open") =>
            /\ calls'[c].headers.if_none_match = CachedTokens(calls'[c].url).etag
            /\ calls'[c].headers.if_modified_since = CachedTokens(calls'[c].url).last_modified

\* C17: a fetch_url call sends the ETag and the Last-Modified the feed cache
\* holds for its url as If-None-Match / If-Modified-Since; a url without a
\* cached token is requested unconditionally, and the tokens of one url are
\* never sent for another.
C17_TokensForwardedPerUrl == [][SendsOwnTokens]_vars

\* a conditional request for a url with a cached ETag is open while a request
\* for a url without an entry is open and carries no token
C17_Witness ==
    \E c1, c2 \in Callers :
        /\ calls[c1].pc = "open" /\ calls[c2].pc = "open"
        /\ calls[c1].headers.if_none_match = "e1"
        /\ calls[c2].url # calls[c1].url
        /\ calls[c2].url \notin DOMAIN feed_cache
        /\ calls[c2].headers = [if_none_match |-> "", if_modified_since |-> ""]

(***************************************************************************)
(* Properties of the snapshot                                              *)
(***************************************************************************)
\* the canonical form of a link: protocol-relative made absolute, fragment
\* and query noise stripped
Canonical(link) ==
    [link EXCEPT !.scheme = IF @ = "" /\ link.host # "" THEN "https" ELSE @,
                 !.query = "", !.frag = ""]

\* a decoded record that is dated and inside the lookback window
Eligible(item) ==
    item.pub_dt # NoDate /\ item.pub_dt >= now - DEFAULT_LOOKBACK_HOURS

\* the position in merge order of the first eligible record with that link
FirstEligible(c) ==
    CHOOSE i \in DOMAIN raw_items :
        /\ Eligible(raw_items[i]) /\ Canonical(raw_items[i].link) = c
        /\ \A k \in 1..(i - 1) :
               ~(Eligible(raw_items[k]) /\ Canonical(raw_items[k].link) = c)

\* C5: of the decoded records that share a canonical link the final snapshot
\* contains exactly one, the first occurrence in merge order.
C5_OneRecordPerCanonicalLink ==
    phase = "done" =>
        \A i \in DOMAIN raw_items :
            Eligible(raw_items[i]) =>
                LET c    == Canonical(raw_items[i].link)
                    kept == {k \in DOMAIN final_data_list :
                                Canonical(final_data_list[k].link) = c}
                IN /\ Cardinality(kept) = 1
                   /\ \A k \in kept :
                          final_data_list[k].link = raw_items[FirstEligible(c)].link

\* an origin flagged high-volume: the link carries a tech-related token
HighVolume(link) == link.host = "tech"

\* C6: no record older than the lookback window is in the final snapshot;
\* records of high-volume origins obey a tighter window than the common one.
C6_LookbackWindow ==
    phase = "done" =>
        \A k \in DOMAIN final_data_list :
            IF HighVolume(final_data_list[k].link)
            THEN now - final_data_list[k].pub_ts < DEFAULT_LOOKBACK_HOURS
            ELSE now - final_data_list[k].pub_ts <= DEFAULT_LOOKBACK_HOURS

\* C7: a record published later than now is retained with its timestamp
\* clamped to now, so no record of the snapshot is dated later than now.
C7_FutureClamped ==
    phase = "done" =>
        /\ \A i \in DOMAIN raw_items :
               (raw_items[i].pub_dt # NoDate /\ raw_items[i].pub_dt > now) =>
                   \E k \in DOMAIN final_data_list :
                       /\ final_data_list[k].link = raw_items[i].link
                       /\ final_data_list[k].pub_ts = now
        /\ \A k \in DOMAIN final_data_list : final_data_list[k].pub_ts <= now

(***************************************************************************)
(* Properties of the full-text cache                                       *)
(***************************************************************************)
\* the full-text cache this run loaded; the file is rewritten by SaveCaches only
LoadedFulltext == JsonLoad(disk.fulltext)

\* the processing loop has finished and the caches are not saved yet
LoopDone == phase = "enrich" /\ idx > Len(valid_items)

OutputOf(list, link) == {list[k] : k \in {n \in DOMAIN list : list[n].link = link}}

\* the loaded cache holds an entry with non-empty content for the link
Populated(link) ==
    link \in DOMAIN LoadedFulltext /\ Get(LoadedFulltext[link], "content", "") # ""

\* C8: when the full-text cache entry of a link is the one the previous run
\* ended with (and holds content), this run requests nothing from the network
\* for that link and produces the content and the hero image the previous
\* run produced.
C8_CacheDeterminism ==
    (run = "rerun" /\ LoopDone) =>
        \A rec \in {final_data_list[k] : k \in DOMAIN final_data_list} :
            ( /\ Populated(rec.link)
              /\ rec.link \in DOMAIN prev.cache
              /\ LoadedFulltext[rec.link] = prev.cache[rec.link] )
            => /\ rec.link \notin netlog
               /\ \A old \in OutputOf(prev.out, rec.link) :
                      old.content = rec.content /\ old.hero_img = rec.hero_img

\* C9: the page of a record is not requested exactly when the full-text cache
\* holds an entry with non-empty content for its link; an entry with empty
\* content counts as a miss and the page is requested again.
C9_SkipOnPopulatedHitOnly ==
    phase = "enrich" =>
        \A k \in 1..(idx - 1) :
            Populated(valid_items[k].link) <=> valid_items[k].link \notin netlog

\* html_cleaner.clean_html_fragment on a fragment none of its passes alters:
\* the fragment inside the parent element it was parsed into
CleanHtmlFragment(fragment) ==
    IF fragment = "" THEN "" ELSE "<div>" \o fragment \o "</div>"

\* the page of that link was requested in this run and answered with a body
PageFetched(link) ==
    link \in DOMAIN lastOk /\ lastOk[link].payload # <<>>

\* C10: after a miss whose page fetch succeeded the full-text cache holds,
\* under the record's link, the sanitized extracted markup together with the
\* hero image, the image list and a timestamp.
C10_MissWritesSanitizedEntry ==
    phase = "enrich" =>
        \A k \in 1..(idx - 1) :
            LET link == valid_items[k].link
            IN (link \notin DOMAIN LoadedFulltext /\ PageFetched(link)) =>
                /\ link \in DOMAIN fulltext_cache
                /\ fulltext_cache[link].content =
                       CleanHtmlFragment(ParsePage(lastOk[link].payload).content)
                /\ {"hero", "images", "ts"} \subseteq
                       {f \in DOMAIN fulltext_cache[link] : f # "content"}

(***************************************************************************)
(* Properties of a run                                                     *)
(***************************************************************************)
\* the run has stopped inside the processing loop
AbortedInLoop == phase = "crashed" /\ idx <= Len(valid_items)

\* C11: a failure of one source or of one record never aborts the run: the
\* processing loop handles every record and the run reaches the step that
\* saves the caches.
C11_FailureNeverAborts == feeds_file.kind = "json" => ~AbortedInLoop

\* the fetch_url calls that have a request open
InFlight == Cardinality({c \in DOMAIN calls : calls[c].pc = "open"})

\* C12: at every moment at most MAX_WORKERS network operations are in flight,
\* however many feeds are configured; the processing loop makes its page and
\* image requests one at a time, after every feed fetch has ended.
C12_BoundedInFlight ==
    /\ InFlight <= MAX_WORKERS
    /\ phase \in {"enrich", "render", "done", "crashed"} => InFlight = 0

\* the pool is full while a feed is still waiting for a thread
C12_Witness ==
    /\ InFlight = MAX_WORKERS
    /\ \E j \in DOMAIN jobs : jobs[j] = "queued"

Stores == {"feed", "image", "fulltext"}

\* C14: at every point in time each of the three cache files on disk is a
\* complete document, the previous one or the new one, never a partial or
\* emptied one.
C14_StoresAlwaysComplete == \A f \in Stores : disk[f].kind # "partial"

\* what the three files hold once the caches of this run are saved
SavedCaches ==
    [feed     |-> JsonFile(feed_cache),
     image    |-> JsonFile(image_cache),
     fulltext |-> JsonFile(fulltext_cache)]

\* C15: a run completes as a successful run only if it has read the feed list
\* and has persisted its caches; otherwise it ends in an error.
C15_UnreadableOrUnsavedIsFatal ==
    phase = "done" => (feeds_file.kind = "json" /\ disk = SavedCaches)

\* C16: the records of the snapshot are in descending order of publish time,
\* whatever the order in which the feed fetches completed.
C16_SortedDescending ==
    phase \in {"enrich", "render", "done"} =>
        \A k \in 1..(Len(final_data_list) - 1) :
            final_data_list[k].pub_ts >= final_data_list[k + 1].pub_ts

\* the feed that completed first carried the older record; both are in the
\* finished snapshot, the newer one first
C16_Witness ==
    /\ phase = "done"
    /\ Len(final_data_list) = 2
    /\ final_data_list[1].pub_ts > final_data_list[2].pub_ts
    /\ raw_items[1].link = final_data_list[2].link
    /\ raw_items[1].pub_dt < raw_items[2].pub_dt

\* the urls of the configured feeds
SourceUrls == {Urls[j] : j \in DOMAIN Urls}

\* C20: every key of the feed cache is the url of a configured feed; article
\* pages and images fetched by the processing loop add no entry.
C20_FeedCacheKeysAreSources ==
    phase \in {"fetch", "enrich", "render", "done", "crashed"} =>
        DOMAIN feed_cache \subseteq SourceUrls

(***************************************************************************)
(* Properties of the image cache                                           *)
(***************************************************************************)
\* the image cache this run loaded; the file is rewritten by SaveCaches only
LoadedImages == JsonLoad(disk.image)

\* the entry carries a timestamp that is no older than the time-to-live
FreshEntry(entry) ==
    "timestamp" \in DOMAIN entry /\ clock - entry.timestamp <= IMAGE_CACHE_TTL

\* C18: a record gets a local image reference without a request for the
\* image only from an image-cache entry that is within the time-to-live and
\* whose stored file exists; otherwise the image is downloaded again.
C18_ReuseOnlyFreshAndStored ==
    phase = "enrich" =>
        \A k \in 1..(idx - 1) :
            LET img == valid_items[k].rss_image
            IN (final_data_list[k].hero_img # NoPath /\ img \notin netlog) =>
                   /\ img \in DOMAIN LoadedImages
                   /\ FreshEntry(LoadedImages[img])
                   /\ final_data_list[k].hero_img \in files

\* C19: every key of the image cache is an image url without query and
\* fragment, and every value holds a local name and a timestamp, so urls that
\* differ in query or fragment only share one entry.
C19_ImageKeysNormalized ==
    phase \in {"fetch", "enrich", "render", "done", "crashed"} =>
        \A k \in DOMAIN image_cache :
            /\ k = NormalizedKey(k)
            /\ {"path", "timestamp"} \subseteq DOMAIN image_cache[k]

(***************************************************************************)
(* Properties of concurrent workers on one Fetcher                         *)
(***************************************************************************)
\* worker c returns from fetch_url with a 2xx answer in this step
FetchWrites(c, k) ==
    /\ calls[c].pc = "open" /\ calls'[c].pc = "idle"
    /\ calls[c].url = k
    /\ ret'[c].resp.kind = "ok"
    /\ EntryHolds(feed_cache'[k], ret'[c].resp)
    /\ feed_cache'[k].timestamp = clock

\* worker c stores the entry of its download in this step
ImageWrites(c, k) ==
    /\ calls[c].pc = "img_stored" /\ calls'[c].pc = "idle"
    /\ calls[c].key = k
    /\ image_cache'[k] =
           [path |-> calls[c].name, timestamp |-> calls[c].now, url |-> calls[c].url]

\* a step keeps every key of both caches, and an entry that is new or changed
\* is, whole, the entry of the worker that takes the step
WritesAreWhole ==
    /\ DOMAIN feed_cache \subseteq DOMAIN feed_cache'
    /\ DOMAIN image_cache \subseteq DOMAIN image_cache'
    /\ \A k \in DOMAIN feed_cache' :
           (k \notin DOMAIN feed_cache \/ feed_cache'[k] # feed_cache[k])
               => \E c \in Callers : FetchWrites(c, k)
    /\ \A k \in DOMAIN image_cache' :
           (k \notin DOMAIN image_cache \/ image_cache'[k] # image_cache[k])
               => \E c \in Callers : ImageWrites(c, k)

\* what a worker got back: fetched by itself, cached, or empty
ReturnIsOwnCachedOrEmpty(r) ==
    CASE r.status = "returned" ->
             \/ r.resp.kind = "ok" /\ r.payload = r.resp.payload
             \/ HasPayload(r.entry) /\ r.payload = B64Decode(r.entry.payload_b64)
             \/ r.payload = <<>>
      [] r.status = "returned_name" ->
             \/ r.stored /\ r.name = [sha1 |-> NormalizedKey(r.url), ext |-> ".jpg"]
                         /\ r.name \in files
             \/ ~r.stored /\ r.name = Get(r.entry, "path", NoName)
             \/ ~r.stored /\ r.name = NoName
      [] OTHER -> TRUE

DownloadFailed(r) ==
    /\ r.status = "async_name"
    /\ r.answer # NoResp
    /\ \/ r.answer.kind # "ok"
       \/ r.answer.payload = <<>>
       \/ ~r.wrote

\* an entry that is new or changed in this step names a file that exists
EntryNamesWrittenFile ==
    \A k \in DOMAIN image_cache' :
        (k \notin DOMAIN image_cache \/ image_cache'[k] # image_cache[k])
            => image_cache'[k].path \in files'

\* a call that returns from a failed download returns "" and leaves the
\* image cache as it was
FailedDownloadLeavesCache ==
    \A c \in Callers :
        (calls[c].pc = "await_get" /\ calls'[c].pc = "idle" /\ DownloadFailed(ret'[c]))
            => /\ ret'[c].name = NoName
               /\ image_cache' = image_cache

\* C30: download_image records an image-cache entry only after the file it
\* names is written, whatever the interleaving of the calls, and a download
\* that fails (network error, empty body, write error) returns "" without
\* adding or changing an entry.
C30_EntryAfterFileAndFailureKeepsCache ==
    [][EntryNamesWrittenFile /\ FailedDownloadLeavesCache]_vars

(***************************************************************************)
(* Properties of the cap on the snapshot                                   *)
(***************************************************************************)
KeptLinks == {valid_items[i].link : i \in DOMAIN valid_items}

\* the items of raw_items that are dated, inside the window, and whose link
\* is not among the kept ones
LeftOut ==
    {i \in DOMAIN raw_items :
        /\ raw_items[i].pub_dt # NoDate
        /\ raw_items[i].pub_dt >= now - DEFAULT_LOOKBACK_HOURS
        /\ raw_items[i].link \notin KeptLinks}

\* C29: the snapshot holds at most DEFAULT_MAX_ITEMS records, and the cap is
\* applied after the descending sort: every in-window record the cap leaves
\* out is no newer than every record kept.
C29_CapAfterSort ==
    phase = "enrich" =>
        /\ Len(valid_items) <= DEFAULT_MAX_ITEMS
        /\ Len(final_data_list) <= DEFAULT_MAX_ITEMS
        /\ \A i \in LeftOut : \A k \in DOMAIN valid_items :
               raw_items[i].pub_dt <= valid_items[k].pub_dt

\* the cap left records out, and a record kept stood behind position
\* DEFAULT_MAX_ITEMS of the unsorted list
C29_Witness ==
    /\ phase = "enrich"
    /\ Len(valid_items) = DEFAULT_MAX_ITEMS
    /\ LeftOut # {}
    /\ \E k \in DOMAIN valid_items : \E i \in DOMAIN raw_items :
           /\ i > DEFAULT_MAX_ITEMS
           /\ raw_items[i].link = valid_items[k].link
           /\ \E j \in LeftOut : raw_items[j].pub_dt < valid_items[k].pub_dt

(***************************************************************************)
(* Properties of parse_items                                               *)
(***************************************************************************)
Parsed == arg.fn = "parse_items" /\ out # NoOut

AbsoluteUrl(url) == url.scheme \in {"http", "https"} /\ url.host # ""

UsableLink(entry) == AbsoluteUrl(NormalizeLink(entry.link))

\* C21: every Record parse_items returns for a valid feed payload has a
\* non-empty, absolute link, and an entry without a usable link gives no
\* Record: the Records are as many as the entries with a usable link.
C21_RecordsHaveAbsoluteLinks ==
    (Parsed /\ StrictParses(arg.payload) /\ out.status = "returned") =>
        /\ \A i \in DOMAIN out.items : AbsoluteUrl(out.items[i].link)
        /\ Len(out.items) = Len(SelectSeq(arg.payload, UsableLink))

\* C22: when the processing of one entry fails, parse_items does not raise
\* and still returns the Records of the other entries of the feed.
C22_BadEntryDroppedAlone ==
    (Parsed /\ StrictParses(arg.payload)
            /\ \E i \in DOMAIN arg.payload : EntryRaises(arg.payload[i])) =>
        /\ out.status = "returned"
        /\ \A i \in DOMAIN arg.payload :
               ~EntryRaises(arg.payload[i]) =>
                   \E k \in DOMAIN out.items :
                       out.items[k] = EntryItem(arg.payload[i], arg.source)

WellFormedEntries(payload) ==
    {i \in DOMAIN payload : payload[i].kind = "item"}

C24_ListingPageRecords ==
    (Parsed /\ HtmlSignature(arg.payload) /\ arg.source \in {Hk01List, OnccList}) =>
        /\ out.status = "returned"
        /\ \A i \in DOMAIN arg.payload[1].anchors :
               Scrapable(arg.payload[1].anchors, arg.source, i) =>
                   \E k \in DOMAIN out.items :
                       /\ out.items[k].link = arg.payload[1].anchors[i].href
                       /\ out.items[k].pub_dt = clock

(***************************************************************************)
(* Properties of HK01Parser.parse                                          *)
(***************************************************************************)
Hk01Parsed == arg.fn = "hk01_parse" /\ out # NoOut

\* the positions of the block list whose block is of a rendered type and
\* carries what that type renders
RenderablePositions(blocks) ==
    {i \in DOMAIN blocks :
        \/ blocks[i].type \in {"text", "header"} /\ blocks[i].text # ""
        \/ blocks[i].type = "image" /\ blocks[i].url # EmptyUrl}

\* the structured data is there and shaped as expected
WellShaped(data) ==
    /\ data.kind = "article"
    /\ \A i \in DOMAIN data.blocks : data.blocks[i].data = "dict"

\* part k of the content renders block i
PartOf(part, block) ==
    \/ block.type = "text" /\ part.tag = "p" /\ part.text = block.text
    \/ block.type = "header" /\ part.tag = "h3" /\ part.text = block.text
    \/ block.type = "image" /\ part.tag = "figure" /\ part.src = block.url

\* f maps the parts onto the renderable positions, in order
InBlockOrder(content, blocks) ==
    /\ Len(content) = Cardinality(RenderablePositions(blocks))
    /\ \A k \in DOMAIN content :
           \E i \in RenderablePositions(blocks) :
               /\ Cardinality({j \in RenderablePositions(blocks) : j <= i}) = k
               /\ PartOf(content[k], blocks[i])

ImagesInBlockOrder(imgs, blocks) ==
    LET pos == {i \in RenderablePositions(blocks) : blocks[i].type = "image"}
    IN /\ Len(imgs) = Cardinality(pos)
       /\ \A k \in DOMAIN imgs :
              \E i \in pos : /\ Cardinality({j \in pos : j <= i}) = k
                             /\ imgs[k] = blocks[i].url

\* C25: when the block list is present, well shaped and has a renderable
\* block, the content is its text, image and subheading blocks in the order
\* of the list and the image list is its image blocks in that order; the
\* <article> element is used in no other case than absent, misshapen or
\* unrenderable structured data; nothing is raised, and ("", "", []) is
\* returned when both tiers fail.
C25_BlocksReplayedInOrder ==
    Hk01Parsed =>
        /\ out.status = "returned"
        /\ (WellShaped(arg.data) /\ RenderablePositions(arg.data.blocks) # {}) =>
               /\ out.tier = "blocks"
               /\ InBlockOrder(out.content_html, arg.data.blocks)
               /\ ImagesInBlockOrder(out.all_imgs, arg.data.blocks)
        /\ out.tier = "html" =>
               ~(WellShaped(arg.data) /\ RenderablePositions(arg.data.blocks) # {})
        /\ out.tier = "none" =>
               /\ out.content_html = <<>> /\ out.main_img = EmptyUrl
               /\ out.all_imgs = <<>>

\* a text block, an image block and a subheading came back in that order
\* although the page also has an <article> element
C25_Witness ==
    /\ Hk01Parsed
    /\ arg.node.kind = "article"
    /\ out.tier = "blocks"
    /\ Len(out.content_html) = 3
    /\ out.content_html[1].tag = "p"
    /\ out.content_html[2].tag = "figure"
    /\ out.content_html[3].tag = "h3"
    /\ out.all_imgs = <<ImgC>>

(***************************************************************************)
(* Properties of clean_html_fragment                                       *)
(***************************************************************************)
Sanitized == arg.fn = "clean_html_fragment" /\ out.status = "returned"

\* C26: sanitizing the output of a sanitization again, for the same origin
\* and hero image, yields the first output: nothing more is removed, no
\* wrapper element is added, no image reference is rewritten
C26_SanitizeIdempotent ==
    (Sanitized /\ out.again.done) => out.again.html = out.html

\* the tree, serialized, or its content
Shows(html, kids) == html = kids \/ html = <<Elem("div", EmptyUrl, kids)>>

\* C27: clean_html_fragment returns; for content that does not parse it
\* returns the fragment; and when a pass raises, what it returns shows the
\* tree as it was before that pass
C27_FailedPassShowsPrePassTree ==
    Sanitized =>
        LET before == BeforeImgPass(arg.fragment, arg.base_url, arg.hero_img)
            later  == BeforeLinkPass(arg.fragment, arg.base_url, arg.fetcher,
                                     arg.hero_img)
        IN /\ ~Parses(arg.fragment) => out.html = arg.fragment
           /\ (Parses(arg.fragment) /\ ImgPassRaises(before, arg.base_url))
                  => Shows(out.html, before)
           /\ (/\ Parses(arg.fragment)
               /\ ~ImgPassRaises(before, arg.base_url)
               /\ LinkPassRaises(later, arg.base_url))
                  => Shows(out.html, later)

\* the origins whose reader view carries no outbound links
NoLinkOrigins == {"unwire.hk", "hk01.com", "cnbeta.com.tw"}

RECURSIVE HasAnchor(_)
HasAnchor(kids) ==
    /\ kids # <<>>
    /\ \/ Head(kids).tag = "a"
       \/ IsElem(Head(kids)) /\ HasAnchor(Head(kids).kids)
       \/ HasAnchor(Tail(kids))

\* the texts in the markup
RECURSIVE Texts(_)
Texts(kids) ==
    IF kids = <<>> THEN {}
    ELSE (IF IsText(Head(kids)) THEN {Head(kids).text}
          ELSE IF IsElem(Head(kids)) THEN Texts(Head(kids).kids)
          ELSE {}) \cup Texts(Tail(kids))

\* the image references in the markup
RECURSIVE Srcs(_)
Srcs(kids) ==
    IF kids = <<>> THEN {}
    ELSE (IF Head(kids).tag = "img" THEN {Head(kids).src}
          ELSE IF IsElem(Head(kids)) THEN Srcs(Head(kids).kids)
          ELSE {}) \cup Srcs(Tail(kids))

\* the references of the images inside an anchor of the fragment or next
\* to one
AnchorImages(fragment) ==
    UNION {Srcs(fragment[i].kids) : i \in {j \in DOMAIN fragment : fragment[j].tag = "a"}}
    \cup
    {fragment[i].src : i \in {j \in DOMAIN fragment :
        /\ fragment[j].tag = "img"
        /\ \/ j > 1 /\ fragment[j - 1].tag = "a"
           \/ j < Len(fragment) /\ fragment[j + 1].tag = "a"}}

\* the reference under which the sanitized content shows the image src
Shown(src, base_url, fetcher) ==
    LET absolute == NormalizeImageUrl(base_url, src)
    IN IF LocalName(fetcher, absolute) # NoName
       THEN LocalRef(LocalName(fetcher, absolute))
       ELSE absolute

\* the duplicate of the hero image, which the sanitizer is to drop
HeroDuplicate(src, hero_img) == hero_img # EmptyUrl /\ FName(src) = FName(hero_img)

\* C28: for unwire.hk, hk01.com and cnbeta the sanitized content has no
\* anchor element, the text of every anchor of the fragment is still in it,
\* and so is every image that was inside an anchor or next to one
C28_AnchorsUnwrappedImagesKept ==
    (/\ Sanitized
     /\ arg.base_url.host \in NoLinkOrigins
     /\ ~CleanRaises(arg.fragment, arg.base_url, arg.fetcher, arg.hero_img))
    => /\ ~HasAnchor(out.html)
       /\ \A i \in DOMAIN arg.fragment :
              (arg.fragment[i].tag = "a" /\ TextContent(arg.fragment[i].kids) # "")
                  => TextContent(arg.fragment[i].kids) \in Texts(out.html)
       /\ \A src \in AnchorImages(arg.fragment) :
              \/ HeroDuplicate(src, arg.hero_img)
              \/ Shown(src, arg.base_url, arg.fetcher) \in Srcs(out.html)

====
